---- MODULE Spec2Model ----
(***************************************************************************)
(* Resilience and context layer of the Mancy bot: rate limiter, TTL        *)
(* caches, and the reply pipeline.  Two programs are modelled: the         *)
(* current one (src/index.js, lines 1-1596) and the earlier one            *)
(* (src/unnamed/part_000).  Time is the value of Date.now() in ms.          *)
(***************************************************************************)
EXTENDS Integers, Sequences, FiniteSets, TLC

VARIABLES
    now,                 \* Date.now()
    userBuckets,         \* RateLimiter.userBuckets : userId -> bucket | NoBucket
    globalRequests,      \* RateLimiter.globalRequests : sequence of timestamps
    concurrentRequests,  \* RateLimiter.concurrentRequests
    ret,                 \* the last call made and what it returned
    program,             \* which program runs: "index" or "part_000"
    cache,               \* part_000: the Map of a SmartCache (searchCache, responseCache), in insertion order
    memoryCache,         \* index.js: searchCache.memoryCache : key -> item | NoItem
    apiCache,            \* rows of the durable api_cache table
    dbInitialized,       \* Database.initialized
    insertionOrder,      \* history: keys of searchCache by time of insertion
    responseCache,       \* index.js: responseCache.memoryCache : userId -> item | NoItem
    pc,                  \* where each handleReply task stands
    attempt,             \* generate's attempt counter of each task
    outcome,             \* the response a task holds, then the reply it sent
    releases,            \* history: releaseToken calls made by each task
    conversation,        \* conversations / conversationHistory: the principal's array, <<>> when absent
    task,                \* the local state of each handler invocation on conversations
    userCooldowns,       \* part_000: userCooldowns entry of the principal, 0 = no entry
    appended,            \* history: turns appended to the stored conversation since it was created
    arrivals,            \* history: the running reply handlers in order of arrival
    text,                \* the string a text function is applied to
    returned,            \* what the text function returned
    lookups,             \* index.js: the three lookups of the searchAllSources call under way
    searched,            \* what the last searchAllSources call returned
    gen,                 \* the generate / generateMancyResponse call under observation: its local state
    calls                \* history: the completion calls that generate call has issued

rlVars == <<userBuckets, globalRequests, concurrentRequests>>
cacheVars == <<program, cache, memoryCache, apiCache, dbInitialized, insertionOrder>>
replyVars == <<responseCache, pc, attempt, outcome, releases>>
chatVars == <<conversation, task, userCooldowns, appended, arrivals>>
textVars == <<text, returned>>
searchVars == <<lookups, searched>>
genVars == <<gen, calls>>
vars == <<now, ret, rlVars, cacheVars, replyVars, chatVars, textVars, searchVars, genVars>>

(***************************************************************************)
(* Program constants.                                                      *)
(***************************************************************************)
GLOBAL_RATE_LIMIT == 5
MAX_CONCURRENT_REQUESTS == 3
RefillIntervalMs == 10000
GlobalWindowMs == 10000
GlobalMultiplier == 5
RESPONSE_CACHE_TTL == 300000
SEARCH_CACHE_TTL == 900000
NEGATIVE_TTL == 300000
SHORT_NEGATIVE_TTL == 60000

(***************************************************************************)
(* Bounds of the model.                                                    *)
(***************************************************************************)
Users == {"U1", "U2", "U3"}
MaxNowRL == 10000
RLTickMs == RefillIntervalMs \div 2
MaxSize == 2
MaxNowCache == 300000
CacheTickMs == NEGATIVE_TTL

Keys == {"k1", "k2", "k3"}
Values == {"v1", "v2"}
Null == "null"
NoRow == [data |-> Null, expires_at |-> -1]
NoItem == [data |-> Null, expiry |-> -1, setExpiry |-> -1]
PersistKeys == {"k1"}
Reqs == {"r1", "r2", "r3", "r4"}
UserOf == [r \in Reqs |-> IF r \in {"r1", "r2"} THEN "U1" ELSE "U2"]

NoBucket == [tokens |-> -1, lastRefill |-> -1]

\* Handler invocations on one principal's conversation.  ref tells which
\* array an invocation holds: none, the stored one, or one that was the
\* stored one until the Map entry was deleted ("detached").
Tasks == {"A", "B"}
SlotRank == [A |-> 1, B |-> 2]
Mention == "M"
Slots == Tasks \cup {Mention}
Principal == "U1"
Messages == {"k1"}
Undefined == "undefined"
NoResponse == [kind |-> "none"]
NoTask == [pc |-> "idle", kind |-> "none", message |-> Null, ref |-> "none",
           attempt |-> 0, response |-> NoResponse,
           calls |-> 0, allCorrupt |-> TRUE, writes |-> <<>>,
           userAppends |-> 0, assistantAppends |-> 0]
NoCall == [op |-> "none"]

\* The lookups of searchAllSources in the order of its promises array:
\* searchWikipedia(query), searchOpenLibrary(query, 'title', 2),
\* searchOpenLibrary(query, 'author', 1); each has its own cache key.
Sources == {"wiki", "title", "author"}
CacheKeyOf == [wiki |-> "k1", title |-> "k2", author |-> "k3"]
LimitOf == [wiki |-> 1, title |-> 2, author |-> 1]
NoLookup == [pc |-> "idle", status |-> "none", value |-> Null, answer |-> Null]

\* The local state of a generate call: where it stands, its arguments, the
\* attempt counter, the local messages array, and as history how each attempt
\* ended and when, the messages already asked and those whose call ended
\* with valid text.
NoGen == [pc |-> "idle", message |-> Null, attempt |-> 0, messages |-> <<>>,
          outcomes |-> <<>>, endedAt |-> <<>>, result |-> NoResponse,
          used |-> {}, succeeded |-> {}]

Min(a, b) == IF a < b THEN a ELSE b
Max(a, b) == IF a > b THEN a ELSE b

(***************************************************************************)
(* RateLimiter (src/index.js)                                              *)
(***************************************************************************)
\* `this.userBuckets.get(userId) || { tokens: CONFIG.GLOBAL_RATE_LIMIT, lastRefill: now }`
BucketOrNew(buckets, userId) ==
    IF buckets[userId] # NoBucket
    THEN buckets[userId]
    ELSE [tokens |-> GLOBAL_RATE_LIMIT, lastRefill |-> now]

\* Faulty variant of Refill: the refill is added without the cap at capacity.
Refill_NoCap(userBucket) ==
    LET timePassed == now - userBucket.lastRefill
        refillAmount == (timePassed \div RefillIntervalMs) * GLOBAL_RATE_LIMIT
    IN  IF refillAmount > 0
        THEN [tokens |-> userBucket.tokens + refillAmount, lastRefill |-> now]
        ELSE userBucket

\* The lazy refill of canProcessUser: whole intervals only, capped at capacity.
Refill(userBucket) ==
    LET timePassed == now - userBucket.lastRefill
        refillAmount == (timePassed \div RefillIntervalMs) * GLOBAL_RATE_LIMIT
    IN  IF refillAmount > 0
        THEN [tokens |-> Min(userBucket.tokens + refillAmount, GLOBAL_RATE_LIMIT),
              lastRefill |-> now]
        ELSE userBucket

\* `this.globalRequests.filter(time => time > tenSecondsAgo)`
PruneWindow(window) ==
    LET tenSecondsAgo == now - GlobalWindowMs
    IN  SelectSeq(window, LAMBDA time : time > tenSecondsAgo)

\* Faulty variant of CanProcessUser: the window check is > instead of >=.
CanProcessUser_StrictWindow(userId) ==
    LET stored == userBuckets[userId] # NoBucket
        userBucket == Refill(BucketOrNew(userBuckets, userId))
        buckets == IF stored THEN [userBuckets EXCEPT ![userId] = userBucket]
                             ELSE userBuckets
        pruned == PruneWindow(globalRequests)
    IN  IF userBucket.tokens <= 0
        THEN [ok |-> FALSE, buckets |-> buckets, window |-> globalRequests]
        ELSE IF Len(pruned) > GLOBAL_RATE_LIMIT * GlobalMultiplier
        THEN [ok |-> FALSE, buckets |-> buckets, window |-> pruned]
        ELSE IF concurrentRequests >= MAX_CONCURRENT_REQUESTS
        THEN [ok |-> FALSE, buckets |-> buckets, window |-> pruned]
        ELSE [ok |-> TRUE, buckets |-> buckets, window |-> pruned]

\* Faulty variant of CanProcessUser: the concurrency check is > instead of >=.
CanProcessUser_StrictConcurrency(userId) ==
    LET stored == userBuckets[userId] # NoBucket
        userBucket == Refill(BucketOrNew(userBuckets, userId))
        buckets == IF stored THEN [userBuckets EXCEPT ![userId] = userBucket]
                             ELSE userBuckets
        pruned == PruneWindow(globalRequests)
    IN  IF userBucket.tokens <= 0
        THEN [ok |-> FALSE, buckets |-> buckets, window |-> globalRequests]
        ELSE IF Len(pruned) >= GLOBAL_RATE_LIMIT * GlobalMultiplier
        THEN [ok |-> FALSE, buckets |-> buckets, window |-> pruned]
        ELSE IF concurrentRequests > MAX_CONCURRENT_REQUESTS
        THEN [ok |-> FALSE, buckets |-> buckets, window |-> pruned]
        ELSE [ok |-> TRUE, buckets |-> buckets, window |-> pruned]

\* canProcessUser: its result and the state it leaves.  A bucket object taken
\* from the map is refilled in place; a fresh one is dropped.  The window is
\* pruned only when the token check has passed.
CanProcessUser(userId) ==
    LET stored == userBuckets[userId] # NoBucket
        userBucket == Refill(BucketOrNew(userBuckets, userId))
        buckets == IF stored THEN [userBuckets EXCEPT ![userId] = userBucket]
                             ELSE userBuckets
        pruned == PruneWindow(globalRequests)
    IN  IF userBucket.tokens <= 0
        THEN [ok |-> FALSE, buckets |-> buckets, window |-> globalRequests]
        ELSE IF Len(pruned) >= GLOBAL_RATE_LIMIT * GlobalMultiplier
        THEN [ok |-> FALSE, buckets |-> buckets, window |-> pruned]
        ELSE IF concurrentRequests >= MAX_CONCURRENT_REQUESTS
        THEN [ok |-> FALSE, buckets |-> buckets, window |-> pruned]
        ELSE [ok |-> TRUE, buckets |-> buckets, window |-> pruned]

\* Faulty variant of ConsumeToken: the token is taken before the checks, and
\* stays taken when they deny.
ConsumeToken_TakeThenCheck(userId) ==
    LET c == CanProcessUser(userId)
        userBucket == BucketOrNew(c.buckets, userId)
        taken == [c.buckets EXCEPT ![userId] = [userBucket EXCEPT !.tokens = @ - 1]]
    IN  IF ~c.ok
        THEN [ok |-> FALSE, buckets |-> taken, window |-> c.window,
              concurrent |-> concurrentRequests]
        ELSE [ok |-> TRUE, buckets |-> taken, window |-> Append(c.window, now),
              concurrent |-> concurrentRequests + 1]

\* consumeToken: result and the rate limiter's state after it.
ConsumeToken(userId) ==
    LET c == CanProcessUser(userId)
        userBucket == BucketOrNew(c.buckets, userId)
    IN  IF ~c.ok
        THEN [ok |-> FALSE, buckets |-> c.buckets, window |-> c.window,
              concurrent |-> concurrentRequests]
        ELSE [ok |-> TRUE,
              buckets |-> [c.buckets EXCEPT ![userId] =
                              [userBucket EXCEPT !.tokens = @ - 1]],
              window |-> Append(c.window, now),
              concurrent |-> concurrentRequests + 1]

\* Faulty variant of ReleaseToken: the decrement is not clamped at zero.
ReleaseToken_NoClamp(concurrent) == concurrent - 1

\* releaseToken
ReleaseToken(concurrent) == Max(0, concurrent - 1)

\* Faulty variant of GetUserWaitTime: the time since the refill itself.
GetUserWaitTime_TimeSinceRefill(buckets, userId) ==
    LET userBucket == buckets[userId]
    IN  IF userBucket = NoBucket \/ userBucket.tokens > 0
        THEN 0
        ELSE Max(0, now - userBucket.lastRefill)

\* getUserWaitTime
GetUserWaitTime(buckets, userId) ==
    LET userBucket == buckets[userId]
    IN  IF userBucket = NoBucket \/ userBucket.tokens > 0
        THEN 0
        ELSE Max(0, RefillIntervalMs - (now - userBucket.lastRefill))

(***************************************************************************)
(* The rate limiter driven directly: any sequence of its four methods at   *)
(* non-decreasing times.                                                   *)
(***************************************************************************)
\* new RateLimiter()
RateLimiterNew ==
    /\ userBuckets = [u \in Users |-> NoBucket]
    /\ globalRequests = <<>>
    /\ concurrentRequests = 0

\* new SmartCache() / new EnhancedCache(), new Database()
CachesNew ==
    /\ cache = <<>>
    /\ memoryCache = [k \in Keys |-> NoItem]
    /\ apiCache = [k \in Keys |-> NoRow]
    /\ dbInitialized = FALSE
    /\ insertionOrder = <<>>
    /\ responseCache = [u \in Users |-> NoItem]

\* new Map() for conversations, conversationHistory and userCooldowns; no
\* handler is running.
NoConversations ==
    /\ conversation = <<>>
    /\ task = [t \in Slots |-> NoTask]
    /\ userCooldowns = 0
    /\ appended = 0
    /\ arrivals = <<>>

\* No text function has been applied.
NoText ==
    /\ text = [kind |-> "none"]
    /\ returned = NoCall

\* searchAllSources has not been called.
NoSearch ==
    /\ lookups = [s \in Sources |-> NoLookup]
    /\ searched = NoCall

\* No generate call is under observation.
NoGenerate ==
    /\ gen = NoGen
    /\ calls = <<>>

\* No reply is being handled.
NoReplies ==
    /\ pc = [r \in Reqs |-> "idle"]
    /\ attempt = [r \in Reqs |-> 0]
    /\ outcome = [r \in Reqs |-> "none"]
    /\ releases = [r \in Reqs |-> 0]

\* No message has arrived yet.
NoRequests ==
    /\ NoConversations
    /\ NoText
    /\ NoSearch
    /\ NoGenerate
    /\ NoReplies

InitRL ==
    /\ now = 0
    /\ ret = NoCall
    /\ program = "index"
    /\ RateLimiterNew
    /\ CachesNew
    /\ NoRequests

CallCanProcessUser(userId) ==
    LET c == CanProcessUser(userId)
    IN  /\ userBuckets' = c.buckets
        /\ globalRequests' = c.window
        /\ UNCHANGED <<now, concurrentRequests, ret, cacheVars, replyVars, chatVars, textVars, searchVars, genVars>>

CallConsumeToken(userId) ==
    LET c == ConsumeToken(userId)
    IN  /\ userBuckets' = c.buckets
        /\ globalRequests' = c.window
        /\ concurrentRequests' = c.concurrent
        /\ ret' = [op |-> "consumeToken", value |-> c.ok]
        /\ UNCHANGED <<now, cacheVars, replyVars, chatVars, textVars, searchVars, genVars>>

CallReleaseToken ==
    /\ concurrentRequests' = ReleaseToken(concurrentRequests)
    /\ UNCHANGED <<now, userBuckets, globalRequests, ret, cacheVars, replyVars, chatVars, textVars, searchVars, genVars>>

\* getUserWaitTime reads the bucket and changes nothing.
CallGetUserWaitTime(userId) ==
    /\ GetUserWaitTime(userBuckets, userId) >= 0
    /\ UNCHANGED vars

TickRL ==
    /\ now + RLTickMs <= MaxNowRL
    /\ now' = now + RLTickMs
    /\ UNCHANGED <<userBuckets, globalRequests, concurrentRequests, ret, cacheVars, replyVars, chatVars, textVars, searchVars, genVars>>

NextRL ==
    \/ \E u \in Users : CallCanProcessUser(u)
    \/ \E u \in Users : CallConsumeToken(u)
    \/ CallReleaseToken
    \/ \E u \in Users : CallGetUserWaitTime(u)
    \/ TickRL

SpecRL == InitRL /\ [][NextRL]_vars

(***************************************************************************)
(* JavaScript Map: entries in insertion order; set on a key that is        *)
(* present replaces its entry in place, set on a new key appends.          *)
(***************************************************************************)
MapHas(m, key) == \E i \in 1..Len(m) : m[i].key = key
MapGet(m, key) == m[CHOOSE i \in 1..Len(m) : m[i].key = key]
MapSet(m, key, item) ==
    IF MapHas(m, key)
    THEN [i \in 1..Len(m) |-> IF m[i].key = key THEN item ELSE m[i]]
    ELSE Append(m, item)
MapDelete(m, key) == SelectSeq(m, LAMBDA e : e.key # key)
MapKeys(m) == {m[i].key : i \in 1..Len(m)}

\* An entry {data, expiry} under its key.  setExpiry is a history field: the
\* expiry given by the set() call whose data the entry holds.
Item(key, data, expiry, setExpiry) ==
    [key |-> key, data |-> data, expiry |-> expiry, setExpiry |-> setExpiry]

\* An entry of EnhancedCache.memoryCache, with the same history field.
MemoryItem(data, expiry, setExpiry) ==
    [data |-> data, expiry |-> expiry, setExpiry |-> setExpiry]

(***************************************************************************)
(* SmartCache (src/unnamed/part_000)                                       *)
(***************************************************************************)
\* set, first half: at capacity the first key of the Map is deleted.
SmartCacheEvict(c) ==
    IF Len(c) >= MaxSize /\ Len(c) > 0
    THEN MapDelete(c, c[1].key)
    ELSE c

SmartCacheSet(c, key, value, ttl) ==
    MapSet(SmartCacheEvict(c), key, Item(key, value, now + ttl, now + ttl))

\* Faulty variant of SmartCacheGet: a hit moves the entry to the end of the Map (LRU).
SmartCacheGet_Lru(c, key) ==
    IF ~MapHas(c, key)
    THEN [value |-> Null, cache |-> c, setExpiry |-> -1]
    ELSE LET item == MapGet(c, key)
         IN  IF now > item.expiry
             THEN [value |-> Null, cache |-> MapDelete(c, key), setExpiry |-> -1]
             ELSE [value |-> item.data, cache |-> Append(MapDelete(c, key), item),
                   setExpiry |-> item.setExpiry]

\* get: the value returned and the Map it leaves (an expired entry is deleted).
SmartCacheGet(c, key) ==
    IF ~MapHas(c, key)
    THEN [value |-> Null, cache |-> c, setExpiry |-> -1]
    ELSE LET item == MapGet(c, key)
         IN  IF now > item.expiry
             THEN [value |-> Null, cache |-> MapDelete(c, key), setExpiry |-> -1]
             ELSE [value |-> item.data, cache |-> c, setExpiry |-> item.setExpiry]

SmartCacheCleanup(c) == SelectSeq(c, LAMBDA e : ~(now > e.expiry))

(***************************************************************************)
(* Database.getCache / setCache / cleanupExpiredCache (src/index.js)       *)
(***************************************************************************)
\* SELECT data ... WHERE key_hash = ? AND expires_at > CURRENT_TIMESTAMP
DatabaseGetCache(rows, key) ==
    IF ~dbInitialized THEN NoRow
    ELSE IF rows[key] # NoRow /\ rows[key].expires_at > now THEN rows[key]
    ELSE NoRow

\* INSERT OR REPLACE INTO api_cache
DatabaseSetCache(rows, key, data, ttlMs) ==
    IF ~dbInitialized THEN rows
    ELSE [rows EXCEPT ![key] = [data |-> data, expires_at |-> now + ttlMs]]

\* DELETE FROM api_cache WHERE expires_at <= CURRENT_TIMESTAMP
DatabaseCleanupExpiredCache(rows) ==
    IF ~dbInitialized THEN rows
    ELSE [k \in Keys |-> IF rows[k] # NoRow /\ rows[k].expires_at <= now
                         THEN NoRow ELSE rows[k]]

(***************************************************************************)
(* EnhancedCache (src/index.js)                                            *)
(***************************************************************************)
\* get: memory first, then the durable store, which repopulates memory.
EnhancedCacheGet(mem, rows, key, useDatabase) ==
    LET memoryItem == mem[key]
        dbData == DatabaseGetCache(rows, key)
    IN  IF memoryItem # NoItem /\ now < memoryItem.expiry
        THEN [value |-> memoryItem.data, cache |-> mem,
              setExpiry |-> memoryItem.setExpiry]
        ELSE IF useDatabase /\ dbData.data # Null
        THEN [value |-> dbData.data,
              cache |-> [mem EXCEPT ![key] =
                            MemoryItem(dbData.data, now + RESPONSE_CACHE_TTL,
                                       dbData.expires_at)],
              setExpiry |-> dbData.expires_at]
        ELSE [value |-> Null, cache |-> mem, setExpiry |-> -1]

\* Faulty variant of EnhancedCacheSet: the expiry is the ttl, not Date.now() + ttl.
EnhancedCacheSet_ExpiryIsTtl(mem, rows, key, data, ttl, persistInDb) ==
    [cache |-> [mem EXCEPT ![key] = MemoryItem(data, ttl, ttl)],
     rows |-> IF persistInDb THEN DatabaseSetCache(rows, key, data, ttl) ELSE rows]

\* set: the memory Map and the durable rows after it.
EnhancedCacheSet(mem, rows, key, data, ttl, persistInDb) ==
    [cache |-> [mem EXCEPT ![key] = MemoryItem(data, now + ttl, now + ttl)],
     rows |-> IF persistInDb THEN DatabaseSetCache(rows, key, data, ttl) ELSE rows]

EnhancedCacheDelete(mem, key) == [mem EXCEPT ![key] = NoItem]

EnhancedCacheCleanup(mem) ==
    [k \in DOMAIN mem |-> IF mem[k] # NoItem /\ now > mem[k].expiry THEN NoItem ELSE mem[k]]

\* memoryCache.size
EnhancedCacheSize(mem) == Cardinality({k \in DOMAIN mem : mem[k] # NoItem})

(***************************************************************************)
(* searchWikipedia, both programs.  answer is what the lookup would        *)
(* answer: "notFound" (404), "noExtract", "error" (any other failure or     *)
(* timeout) or a result in Values.  fetched tells whether the external      *)
(* lookup was issued.                                                       *)
(***************************************************************************)
Answers == {"notFound", "noExtract", "error"} \cup Values

\* part_000
SearchWikipediaSmart(c, cacheKey, answer) ==
    LET got == SmartCacheGet(c, cacheKey)
    IN  IF got.value # Null
        THEN [fetched |-> FALSE, value |-> got.value, cache |-> got.cache]
        ELSE IF answer \in {"notFound", "noExtract"}
        THEN [fetched |-> TRUE, value |-> Null,
              cache |-> SmartCacheSet(got.cache, cacheKey, Null, NEGATIVE_TTL)]
        ELSE IF answer = "error"
        THEN [fetched |-> TRUE, value |-> Null,
              cache |-> SmartCacheSet(got.cache, cacheKey, Null, SHORT_NEGATIVE_TTL)]
        ELSE [fetched |-> TRUE, value |-> answer,
              cache |-> SmartCacheSet(got.cache, cacheKey, answer, SEARCH_CACHE_TTL)]

\* index.js: ExternalAPIs.searchWikipedia
SearchWikipediaEnhanced(mem, rows, cacheKey, answer) ==
    LET got == EnhancedCacheGet(mem, rows, cacheKey, TRUE)
    IN  IF got.value # Null
        THEN [fetched |-> FALSE, value |-> got.value, cache |-> got.cache, rows |-> rows]
        ELSE IF answer \in {"notFound", "noExtract"}
        THEN LET put == EnhancedCacheSet(got.cache, rows, cacheKey, Null, NEGATIVE_TTL, FALSE)
             IN  [fetched |-> TRUE, value |-> Null, cache |-> put.cache, rows |-> put.rows]
        ELSE IF answer = "error"
        THEN [fetched |-> TRUE, value |-> Null, cache |-> got.cache, rows |-> rows]
        ELSE LET put == EnhancedCacheSet(got.cache, rows, cacheKey, answer,
                                         SEARCH_CACHE_TTL, TRUE)
             IN  [fetched |-> TRUE, value |-> answer, cache |-> put.cache, rows |-> put.rows]

(***************************************************************************)
(* ExternalAPIs.searchOpenLibrary and searchAllSources (src/index.js).     *)
(* The docs of an Open Library answer are "v1" (one doc) or "v2" (two);    *)
(* "noExtract" is an answer without docs, "notFound" and "error" are a     *)
(* response that is not ok, a timeout or any other exception.              *)
(***************************************************************************)
DocTitles == <<"d1", "d2">>
DocsIn == [v1 |-> 1, v2 |-> 2]

\* data.docs.slice(0, limit)
Slice(docs, limit) == IF DocsIn[docs] > limit THEN "v1" ELSE docs

SearchOpenLibrary(mem, rows, cacheKey, limit, answer) ==
    LET got == EnhancedCacheGet(mem, rows, cacheKey, TRUE)
    IN  IF got.value # Null
        THEN [fetched |-> FALSE, value |-> got.value, cache |-> got.cache, rows |-> rows]
        ELSE IF answer = "noExtract"
        THEN LET put == EnhancedCacheSet(got.cache, rows, cacheKey, Null, NEGATIVE_TTL, FALSE)
             IN  [fetched |-> TRUE, value |-> Null, cache |-> put.cache, rows |-> put.rows]
        ELSE IF answer \in {"notFound", "error"}
        THEN [fetched |-> TRUE, value |-> Null, cache |-> got.cache, rows |-> rows]
        ELSE LET results == Slice(answer, limit)
                 put == EnhancedCacheSet(got.cache, rows, cacheKey, results,
                                         SEARCH_CACHE_TTL, TRUE)
             IN  [fetched |-> TRUE, value |-> results, cache |-> put.cache, rows |-> put.rows]

\* One element of the results array.
Result(source, title) == [source |-> source, title |-> title]

\* `...value` of an array of Open Library results.
Spread(source, value) == [i \in 1..DocsIn[value] |-> Result(source, DocTitles[i])]

\* What one settled promise adds to results.
Pushed(source, settled) ==
    IF settled.status = "fulfilled" /\ settled.value # Null
    THEN IF source = "wiki" THEN <<Result(source, settled.value)>>
                            ELSE Spread(source, settled.value)
    ELSE <<>>

\* Faulty variant of SearchAllSources: one source without a result empties the
\* results of all.
SearchAllSources_FailTogether(settled) ==
    LET results == Pushed("wiki", settled["wiki"]) \o Pushed("title", settled["title"])
                       \o Pushed("author", settled["author"])
    IN  IF Len(results) > 0 /\ \A s \in Sources : settled[s].value # Null
        THEN [op |-> "searchAllSources", kind |-> "results", results |-> results]
        ELSE [op |-> "searchAllSources", kind |-> "null", results |-> <<>>]

\* searchAllSources after Promise.allSettled: the results, or null when empty.
SearchAllSources(settled) ==
    LET results == Pushed("wiki", settled["wiki"]) \o Pushed("title", settled["title"])
                       \o Pushed("author", settled["author"])
    IN  IF Len(results) > 0
        THEN [op |-> "searchAllSources", kind |-> "results", results |-> results]
        ELSE [op |-> "searchAllSources", kind |-> "null", results |-> <<>>]

(***************************************************************************)
(* searchAllSources called again and again on one query.  The three async  *)
(* functions are called before the first await of searchAllSources, so all *)
(* three lookups are under way when it suspends; each settles on its own.  *)
(***************************************************************************)
InitSearch ==
    /\ now = 0
    /\ ret = NoCall
    /\ program = "index"
    /\ RateLimiterNew
    /\ cache = <<>>
    /\ memoryCache = [k \in Keys |-> NoItem]
    /\ apiCache = [k \in Keys |-> NoRow]
    /\ dbInitialized \in BOOLEAN
    /\ insertionOrder = <<>>
    /\ responseCache = [u \in Users |-> NoItem]
    /\ NoRequests

\* searchAllSources up to `await Promise.allSettled(promises)`.
CallSearchAllSources ==
    /\ \A s \in Sources : lookups[s].pc # "pending"
    /\ searched.op = "searchAllSources" => searched.kind # "pending"
    /\ lookups' = [s \in Sources |-> [NoLookup EXCEPT !.pc = "pending"]]
    /\ searched' = [op |-> "searchAllSources", kind |-> "pending", results |-> <<>>]
    /\ UNCHANGED <<now, ret, rlVars, cacheVars, replyVars, chatVars, textVars, genVars>>

\* One lookup runs to its return: cache, request, cache.
LookupSettles(source, answer) ==
    LET r == IF source = "wiki"
             THEN SearchWikipediaEnhanced(memoryCache, apiCache, CacheKeyOf[source], answer)
             ELSE SearchOpenLibrary(memoryCache, apiCache, CacheKeyOf[source],
                                    LimitOf[source], answer)
    IN  /\ lookups[source].pc = "pending"
        /\ memoryCache' = r.cache
        /\ apiCache' = r.rows
        /\ lookups' = [lookups EXCEPT ![source] =
                          [pc |-> "settled", status |-> "fulfilled", value |-> r.value,
                           answer |-> IF r.fetched THEN answer ELSE "cached"]]
        /\ UNCHANGED <<now, ret, rlVars, program, cache, dbInitialized, insertionOrder,
                       replyVars, chatVars, textVars, searched, genVars>>

\* All three promises have settled: searchAllSources returns.
ReturnSearchAllSources ==
    /\ searched.op = "searchAllSources" /\ searched.kind = "pending"
    /\ \A s \in Sources : lookups[s].pc = "settled"
    /\ searched' = SearchAllSources(lookups)
    /\ UNCHANGED <<now, ret, rlVars, cacheVars, replyVars, chatVars, textVars, lookups, genVars>>

NextSearch ==
    \/ CallSearchAllSources
    \/ \E s \in Sources, answer \in Answers : LookupSettles(s, answer)
    \/ ReturnSearchAllSources

SpecSearch == InitSearch /\ [][NextSearch]_vars

(***************************************************************************)
(* One searchCache driven directly, in either program.                     *)
(***************************************************************************)
TTLs == {0, NEGATIVE_TTL}

InitCache ==
    /\ now = 0
    /\ ret = NoCall
    /\ program \in {"index", "part_000"}
    /\ RateLimiterNew
    /\ CachesNew
    /\ NoRequests

\* The keys of Map `after` by time of insertion, given those before the call;
\* inserted is the key the call added anew (Null when none).
InsertionOrderAfter(after, inserted) ==
    LET kept == SelectSeq(insertionOrder,
                          LAMBDA k : MapHas(after, k) /\ k # inserted)
    IN  IF inserted # Null THEN Append(kept, inserted) ELSE kept

SmartSet(key, value, ttl) ==
    /\ program = "part_000"
    /\ cache' = SmartCacheSet(cache, key, value, ttl)
    /\ insertionOrder' = InsertionOrderAfter(cache',
            IF MapHas(SmartCacheEvict(cache), key) THEN Null ELSE key)
    /\ UNCHANGED <<now, ret, rlVars, replyVars, program, memoryCache, apiCache, dbInitialized, chatVars, textVars, searchVars, genVars>>

SmartGet(key) ==
    /\ program = "part_000"
    /\ cache' = SmartCacheGet(cache, key).cache
    /\ insertionOrder' = InsertionOrderAfter(cache', Null)
    /\ ret' = [op |-> "get", value |-> SmartCacheGet(cache, key).value]
    /\ UNCHANGED <<now, rlVars, replyVars, program, memoryCache, apiCache, dbInitialized, chatVars, textVars, searchVars, genVars>>

SmartDelete(key) ==
    /\ program = "part_000"
    /\ cache' = MapDelete(cache, key)
    /\ insertionOrder' = InsertionOrderAfter(cache', Null)
    /\ UNCHANGED <<now, ret, rlVars, replyVars, program, memoryCache, apiCache, dbInitialized, chatVars, textVars, searchVars, genVars>>

SmartCleanup ==
    /\ program = "part_000"
    /\ cache' = SmartCacheCleanup(cache)
    /\ insertionOrder' = InsertionOrderAfter(cache', Null)
    /\ UNCHANGED <<now, ret, rlVars, replyVars, program, memoryCache, apiCache, dbInitialized, chatVars, textVars, searchVars, genVars>>

SmartSearchWikipedia(key, answer) ==
    LET r == SearchWikipediaSmart(cache, key, answer)
        afterGet == SmartCacheGet(cache, key).cache
    IN  /\ program = "part_000"
        /\ cache' = r.cache
        /\ insertionOrder' = InsertionOrderAfter(cache',
                IF r.fetched /\ ~MapHas(SmartCacheEvict(afterGet), key)
                THEN key ELSE Null)
        /\ ret' = [op |-> "searchWikipedia", value |-> r.value]
        /\ UNCHANGED <<now, rlVars, replyVars, program, memoryCache, apiCache, dbInitialized, chatVars, textVars, searchVars, genVars>>

DatabaseInitialize ==
    /\ program = "index"
    /\ ~dbInitialized
    /\ dbInitialized' = TRUE
    /\ UNCHANGED <<now, ret, rlVars, replyVars, program, cache, memoryCache, apiCache, insertionOrder, chatVars, textVars, searchVars, genVars>>

EnhancedSet(key, data, ttl, persistInDb) ==
    LET put == EnhancedCacheSet(memoryCache, apiCache, key, data, ttl, persistInDb)
    IN  /\ program = "index"
        /\ memoryCache' = put.cache
        /\ apiCache' = put.rows
        /\ UNCHANGED <<now, ret, rlVars, replyVars, program, cache, dbInitialized, insertionOrder, chatVars, textVars, searchVars, genVars>>

EnhancedGet(key, useDatabase) ==
    LET got == EnhancedCacheGet(memoryCache, apiCache, key, useDatabase)
    IN  /\ program = "index"
        /\ memoryCache' = got.cache
        /\ ret' = [op |-> "get", value |-> got.value]
        /\ UNCHANGED <<now, rlVars, replyVars, program, cache, apiCache, dbInitialized, insertionOrder, chatVars, textVars, searchVars, genVars>>

EnhancedDelete(key) ==
    /\ program = "index"
    /\ memoryCache' = EnhancedCacheDelete(memoryCache, key)
    /\ UNCHANGED <<now, ret, rlVars, replyVars, program, cache, apiCache, dbInitialized, insertionOrder, chatVars, textVars, searchVars, genVars>>

\* The periodic sweep: memory cleanup, then the durable store's.
EnhancedCleanup ==
    /\ program = "index"
    /\ memoryCache' = EnhancedCacheCleanup(memoryCache)
    /\ apiCache' = DatabaseCleanupExpiredCache(apiCache)
    /\ UNCHANGED <<now, ret, rlVars, replyVars, program, cache, dbInitialized, insertionOrder, chatVars, textVars, searchVars, genVars>>

EnhancedSearchWikipedia(key, answer) ==
    LET r == SearchWikipediaEnhanced(memoryCache, apiCache, key, answer)
    IN  /\ program = "index"
        /\ memoryCache' = r.cache
        /\ apiCache' = r.rows
        /\ ret' = [op |-> "searchWikipedia", value |-> r.value]
        /\ UNCHANGED <<now, rlVars, replyVars, program, cache, dbInitialized, insertionOrder, chatVars, textVars, searchVars, genVars>>

TickCache ==
    /\ now + CacheTickMs <= MaxNowCache
    /\ now' = now + CacheTickMs
    /\ UNCHANGED <<ret, rlVars, cacheVars, replyVars, chatVars, textVars, searchVars, genVars>>

NextCache ==
    \/ \E k \in Keys, v \in Values \cup {Null}, t \in TTLs : SmartSet(k, v, t)
    \/ \E k \in Keys : SmartGet(k)
    \/ \E k \in Keys : SmartDelete(k)
    \/ SmartCleanup
    \/ \E k \in Keys, o \in Answers : SmartSearchWikipedia(k, o)
    \/ DatabaseInitialize
    \/ \E k \in Keys, v \in Values \cup {Null}, t \in TTLs :
          \E p \in (IF k \in PersistKeys THEN BOOLEAN ELSE {FALSE}) :
              EnhancedSet(k, v, t, p)
    \/ \E k \in Keys, d \in BOOLEAN : EnhancedGet(k, d)
    \/ \E k \in Keys : EnhancedDelete(k)
    \/ EnhancedCleanup
    \/ \E k \in PersistKeys, o \in Answers : EnhancedSearchWikipedia(k, o)
    \/ TickCache

SpecCache == InitCache /\ [][NextCache]_vars

(***************************************************************************)
(* MessageHandler.handleReply with ResponseGenerator.generate               *)
(* (src/index.js): one task per inbound reply; a task runs from one await   *)
(* to the next in one step, and tasks interleave at their awaits.           *)
(*   pc: idle -> typing -> [search ->] generate -> completion/backoff ...   *)
(*       -> respond -> done;  a denied task goes from idle to done.         *)
(* The platform may reject sendTyping and the final reply; the completion   *)
(* service returns valid text, corrupt text or fails.                       *)
(***************************************************************************)
MaxAttempts == 3
ResponseText == "text"

\* One call of rateLimiter.releaseToken() by task r.
Released(r) ==
    /\ concurrentRequests' = ReleaseToken(concurrentRequests)
    /\ releases' = [releases EXCEPT ![r] = @ + 1]

\* handleReply up to its first await: admission, and on denial the wait reply,
\* which is sent only when getUserWaitTime is positive.
Arrive(r) ==
    LET c == ConsumeToken(UserOf[r])
        waitTime == GetUserWaitTime(c.buckets, UserOf[r])
    IN  /\ pc[r] = "idle"
        /\ userBuckets' = c.buckets
        /\ globalRequests' = c.window
        /\ concurrentRequests' = c.concurrent
        /\ pc' = [pc EXCEPT ![r] = IF c.ok THEN "typing" ELSE "done"]
        /\ outcome' = [outcome EXCEPT ![r] =
                          IF c.ok THEN "none"
                          ELSE IF waitTime > 0 THEN "wait" ELSE "silent"]
        /\ UNCHANGED <<now, ret, cacheVars, responseCache, attempt, releases, chatVars, textVars, searchVars, genVars>>

\* The catch and finally blocks of handleReply: apology, then release.
CatchAndFinally(r) ==
    /\ pc' = [pc EXCEPT ![r] = "done"]
    /\ outcome' = [outcome EXCEPT ![r] = "apology"]
    /\ Released(r)

\* After sendTyping: it threw; or the normalized message is empty; or the
\* query analysis asks for external information or not.
Typing(r, result) ==
    /\ pc[r] = "typing"
    /\ \/ /\ result = "throw"
          /\ CatchAndFinally(r)
       \/ /\ result = "empty"
          /\ pc' = [pc EXCEPT ![r] = "done"]
          /\ outcome' = [outcome EXCEPT ![r] = "content"]
          /\ Released(r)
       \/ /\ result \in {"lookup", "plain"}
          /\ pc' = [pc EXCEPT ![r] = IF result = "lookup" THEN "search" ELSE "generate"]
          /\ UNCHANGED <<outcome, concurrentRequests, releases>>
    /\ UNCHANGED <<now, ret, userBuckets, globalRequests, cacheVars, responseCache, attempt, chatVars, textVars, searchVars, genVars>>

\* searchAllSources has settled.
Search(r) ==
    /\ pc[r] = "search"
    /\ pc' = [pc EXCEPT ![r] = "generate"]
    /\ UNCHANGED <<now, ret, rlVars, cacheVars, responseCache, attempt, outcome, releases, chatVars, textVars, searchVars, genVars>>

\* generate: the response cache is read (memory only); a hit returns at once,
\* a miss starts attempt 1 up to its completion call.
GenerateStart(r) ==
    LET cachedResponse ==
            EnhancedCacheGet(responseCache, apiCache, UserOf[r], FALSE).value
    IN  /\ pc[r] = "generate"
        /\ IF cachedResponse # Null
           THEN /\ pc' = [pc EXCEPT ![r] = "respond"]
                /\ outcome' = [outcome EXCEPT ![r] = "cached"]
                /\ UNCHANGED attempt
           ELSE /\ pc' = [pc EXCEPT ![r] = "completion"]
                /\ attempt' = [attempt EXCEPT ![r] = 1]
                /\ UNCHANGED outcome
        /\ UNCHANGED <<now, ret, rlVars, cacheVars, responseCache, releases, chatVars, textVars, searchVars, genVars>>

\* The completion call of the current attempt has settled.  Every attempt
\* ends in the finally block of the loop body, which releases a token.
Completion(r, result) ==
    /\ pc[r] = "completion"
    /\ \/ /\ result = "valid"
          /\ responseCache' = EnhancedCacheSet(responseCache, apiCache, UserOf[r],
                                  ResponseText, RESPONSE_CACHE_TTL, FALSE).cache
          /\ pc' = [pc EXCEPT ![r] = "respond"]
          /\ outcome' = [outcome EXCEPT ![r] = "text"]
          /\ Released(r)
          /\ UNCHANGED attempt
       \/ /\ result = "corrupt"
          /\ IF attempt[r] = MaxAttempts
             THEN /\ pc' = [pc EXCEPT ![r] = "respond"]
                  /\ outcome' = [outcome EXCEPT ![r] = "fallback"]
                  /\ UNCHANGED attempt
             ELSE /\ attempt' = [attempt EXCEPT ![r] = @ + 1]
                  /\ UNCHANGED <<pc, outcome>>
          /\ Released(r)
          /\ UNCHANGED responseCache
       \/ /\ result = "error"
          /\ IF attempt[r] = MaxAttempts
             THEN /\ pc' = [pc EXCEPT ![r] = "respond"]
                  /\ outcome' = [outcome EXCEPT ![r] = "fallback"]
                  /\ Released(r)
             ELSE /\ pc' = [pc EXCEPT ![r] = "backoff"]
                  /\ UNCHANGED <<outcome, concurrentRequests, releases>>
          /\ UNCHANGED <<responseCache, attempt>>
    /\ UNCHANGED <<now, ret, userBuckets, globalRequests, cacheVars, chatVars, textVars, searchVars, genVars>>

\* The sleep after a failed attempt is over: finally, then the next attempt.
Backoff(r) ==
    /\ pc[r] = "backoff"
    /\ pc' = [pc EXCEPT ![r] = "completion"]
    /\ attempt' = [attempt EXCEPT ![r] = @ + 1]
    /\ Released(r)
    /\ UNCHANGED <<now, ret, userBuckets, globalRequests, cacheVars, responseCache, outcome, chatVars, textVars, searchVars, genVars>>

\* Back in handleReply: history, durable record, reply; then finally.
Respond(r, result) ==
    /\ pc[r] = "respond"
    /\ \/ /\ result = "ok"
          /\ pc' = [pc EXCEPT ![r] = "done"]
          /\ Released(r)
          /\ UNCHANGED outcome
       \/ /\ result = "throw"
          /\ CatchAndFinally(r)
    /\ UNCHANGED <<now, ret, userBuckets, globalRequests, cacheVars, responseCache, attempt, chatVars, textVars, searchVars, genVars>>

\* All the requests arrive within one refill interval (now does not advance).
\* The first principal may have spent its tokens in this interval already, on
\* requests that have finished.
InitReply ==
    /\ now = 0
    /\ ret = NoCall
    /\ program = "index"
    /\ \E spent \in {0, GLOBAL_RATE_LIMIT} :
          /\ userBuckets = [u \in Users |->
                IF u = UserOf["r1"] /\ spent > 0
                THEN [tokens |-> GLOBAL_RATE_LIMIT - spent, lastRefill |-> now]
                ELSE NoBucket]
          /\ globalRequests = [i \in 1..spent |-> now]
    /\ concurrentRequests = 0
    /\ CachesNew
    /\ NoRequests

NextReply ==
    \/ \E r \in Reqs : Arrive(r)
    \/ \E r \in Reqs, x \in {"throw", "empty", "lookup", "plain"} : Typing(r, x)
    \/ \E r \in Reqs : Search(r)
    \/ \E r \in Reqs : GenerateStart(r)
    \/ \E r \in Reqs, x \in {"valid", "corrupt", "error"} : Completion(r, x)
    \/ \E r \in Reqs : Backoff(r)
    \/ \E r \in Reqs, x \in {"ok", "throw"} : Respond(r, x)

SpecReply == InitReply /\ [][NextReply]_vars

(***************************************************************************)
(* Conversations (src/index.js ConversationManager, ResponseGenerator and  *)
(* MessageHandler; src/unnamed/part_000 handleMancyResponse).  One         *)
(* principal; each invocation of a handler is a task that runs from one    *)
(* await to the next.  A conversation is a JavaScript array: a task that   *)
(* took it before the Map entry was deleted goes on writing to the array   *)
(* it holds, which is then no longer the stored one.  The lookups of a     *)
(* reply are those of SpecCache and leave the conversation alone.          *)
(***************************************************************************)
MAX_HISTORY_MESSAGES == 6
maxHistory == 4
COOLDOWN_TIME == 2000
MaxNowChat == 4000
MaxNowHistory == 10000
MaxMentions == 2
MaxMentionsChat == 1
MANCY_CACHE_TTL == 300000

MaxHistoryPairs == IF program = "index" THEN MAX_HISTORY_MESSAGES ELSE maxHistory
MaxTurns == 1 + 2 * MaxHistoryPairs
EnoughTurns == 2 * MaxHistoryPairs + 5

Turn(role, content, stamped) == [role |-> role, content |-> content, stamped |-> stamped]
SystemTurn == Turn("system", "prompt", FALSE)

\* response.text, response.model, response.fromCache: a property of a string
\* is undefined.
Prop(response, name) ==
    IF response.kind = "object" THEN response[name] ELSE Undefined

\* normalizeText as addMessage uses it on a content: `if (!text) return ''`.
NormalizedContent(content) == IF content = Undefined THEN "" ELSE content

\* Faulty variant of Trimmed: the oldest turns are kept, not the most recent.
Trimmed_KeepsOldest(messages) ==
    IF Len(messages) > MAX_HISTORY_MESSAGES * 2
    THEN SubSeq(messages, 1, MAX_HISTORY_MESSAGES * 2)
    ELSE messages

\* addMessage's push and trim on the array getConversation returns.
Trimmed(messages) ==
    IF Len(messages) > MAX_HISTORY_MESSAGES * 2
    THEN <<messages[1]>> \o
         SubSeq(messages, Len(messages) - (MAX_HISTORY_MESSAGES * 2 - 1) + 1,
                Len(messages))
    ELSE messages

AddMessage(messages, role, content) ==
    Trimmed(Append(messages, Turn(role, NormalizedContent(content), TRUE)))

\* prepareContext after its await: the system turn is written at index 0
\* unless the content there is the prompt already.
WithSystemPrompt(messages) ==
    IF Len(messages) = 0
    THEN <<SystemTurn>>
    ELSE IF messages[1].content # SystemTurn.content
    THEN [messages EXCEPT ![1] = SystemTurn]
    ELSE messages

\* Map.delete of the principal's entry: who holds the array keeps it, but it
\* is the stored one no more.
Detached(tsk) ==
    [t \in Slots |-> IF tsk[t].ref = "stored"
                     THEN [tsk[t] EXCEPT !.ref = "detached"] ELSE tsk[t]]

\* History: n appends to the stored conversation.
Logged(n) == appended' = Min(appended + n, EnoughTurns)

Forget(log, t) == SelectSeq(log, LAMBDA x : x # t)

\* What generate returns: the cached string on a hit, an object otherwise.
CachedString(value) == [kind |-> "string", value |-> value]
Generated(value, model) ==
    [kind |-> "object", text |-> value, model |-> model, fromCache |-> FALSE]
ValidText == "valid text"
FallbackText == "fallback text"
GenerateFallback == Generated(FallbackText, "fallback")

\* The state in which `spent` replies with an empty message have been
\* answered at the current time: they took a token each and left no other
\* trace.
InitConversations(spent) ==
    /\ now = COOLDOWN_TIME
    /\ ret = NoCall
    /\ program \in {"index", "part_000"}
    /\ userBuckets = [u \in Users |->
          IF u = Principal /\ spent > 0 /\ program = "index"
          THEN [tokens |-> GLOBAL_RATE_LIMIT - spent, lastRefill |-> now]
          ELSE NoBucket]
    /\ globalRequests = [i \in 1..(IF program = "index" THEN spent ELSE 0) |-> now]
    /\ concurrentRequests = 0
    /\ cache = <<>>
    /\ memoryCache = [k \in Keys |-> NoItem]
    /\ apiCache = [k \in Keys |-> NoRow]
    /\ dbInitialized = FALSE
    /\ insertionOrder = <<>>
    /\ responseCache = [k \in Messages |-> NoItem]
    /\ NoRequests

\* Two replies can still be admitted before the bucket is empty.
InitChat == InitConversations(GLOBAL_RATE_LIMIT - Cardinality(Tasks))

\* A handler starts in a slot.
Fresh(kind, message, next) ==
    [NoTask EXCEPT !.pc = next, !.kind = kind, !.message = message]

\* A new reply is handled in the first slot that is not running.
FreeSlot(t) ==
    /\ task[t].pc = "idle"
    /\ \A u \in Tasks : task[u].pc = "idle" => SlotRank[t] <= SlotRank[u]

\* handleReply up to its first await: admission by the rate limiter.
HandleReplyArrive(t, message) ==
    LET c == ConsumeToken(Principal)
    IN  /\ program = "index"
        /\ FreeSlot(t)
        /\ userBuckets' = c.buckets
        /\ globalRequests' = c.window
        /\ concurrentRequests' = c.concurrent
        /\ task' = IF c.ok THEN [task EXCEPT ![t] = Fresh("reply", message, "typing")]
                           ELSE task
        /\ arrivals' = IF c.ok THEN Append(arrivals, t) ELSE arrivals
        /\ UNCHANGED <<now, ret, cacheVars, replyVars, conversation, userCooldowns,
                       appended, textVars, searchVars, genVars>>

\* catch of handleReply: clearConversation(userId); then the finally block.
HandleReplyCaught(t) ==
    /\ conversation' = <<>>
    /\ appended' = 0
    /\ task' = [Detached(task) EXCEPT ![t] = NoTask]
    /\ concurrentRequests' = ReleaseToken(concurrentRequests)
    /\ arrivals' = Forget(arrivals, t)

\* sendTyping and the empty-message test: an empty message is answered and
\* the handler returns; a throw goes to catch.
HandleReplyTyping(t, outcomeOfTyping) ==
    /\ program = "index"
    /\ task[t].pc = "typing"
    /\ CASE outcomeOfTyping = "ok" ->
              /\ task' = [task EXCEPT ![t].pc = "cacheGet"]
              /\ UNCHANGED <<concurrentRequests, arrivals, conversation, appended>>
         [] outcomeOfTyping = "empty" ->
              /\ task' = [task EXCEPT ![t] = NoTask]
              /\ concurrentRequests' = ReleaseToken(concurrentRequests)
              /\ arrivals' = Forget(arrivals, t)
              /\ UNCHANGED <<conversation, appended>>
         [] outcomeOfTyping = "throw" -> HandleReplyCaught(t)
    /\ UNCHANGED <<now, ret, userBuckets, globalRequests, cacheVars, replyVars,
                   userCooldowns, textVars, searchVars, genVars>>

\* generate up to the cache test: a hit returns the cached value itself.
GenerateCacheGet(t) ==
    LET cachedResponse ==
            EnhancedCacheGet(responseCache, apiCache, task[t].message, FALSE)
    IN  /\ program = "index"
        /\ task[t].pc = "cacheGet"
        /\ IF cachedResponse.value # Null
           THEN task' = [task EXCEPT ![t].pc = "addUser",
                                     ![t].response = CachedString(cachedResponse.value)]
           ELSE task' = [task EXCEPT ![t].pc = "prepare"]
        /\ UNCHANGED <<now, ret, rlVars, cacheVars, replyVars, conversation,
                       userCooldowns, appended, arrivals, textVars, searchVars, genVars>>

\* The start of an attempt: prepareContext takes the conversation and awaits
\* the durable history.
PrepareContextBegin(t) ==
    /\ program = "index"
    /\ task[t].pc = "prepare"
    /\ task' = [task EXCEPT ![t].pc = "prepared", ![t].ref = "stored",
                            ![t].attempt = @ + 1]
    /\ UNCHANGED <<now, ret, rlVars, cacheVars, replyVars, conversation,
                   userCooldowns, appended, arrivals, textVars, searchVars, genVars>>

\* prepareContext writes the system turn, generate pushes the user's message
\* on the array it was given and issues the completion call.
PrepareContextEnd(t) ==
    LET stored == task[t].ref = "stored"
        messages == Append(WithSystemPrompt(conversation),
                           Turn("user", task[t].message, FALSE))
    IN  /\ program = "index"
        /\ task[t].pc = "prepared"
        /\ task' = [task EXCEPT ![t].pc = "completion", ![t].ref = "none",
                                ![t].calls = @ + 1,
                                ![t].userAppends = IF stored THEN @ + 1 ELSE @]
        /\ IF stored THEN conversation' = messages /\ Logged(1)
                     ELSE UNCHANGED <<conversation, appended>>
        /\ UNCHANGED <<now, ret, rlVars, cacheVars, replyVars, userCooldowns,
                       arrivals, textVars, searchVars, genVars>>

\* Faulty variant of GenerateCompletion: no attempt is the last one.
GenerateCompletion_NoLastAttempt(t, completion) ==
    LET last == FALSE
    IN  /\ program = "index"
        /\ task[t].pc = "completion"
        /\ CASE completion = "valid" ->
                  /\ responseCache' =
                        EnhancedCacheSet(responseCache, apiCache, task[t].message,
                                         ValidText, RESPONSE_CACHE_TTL, FALSE).cache
                  /\ task' = [task EXCEPT ![t].pc = "addUser",
                                          ![t].response = Generated(ValidText, "model"),
                                          ![t].allCorrupt = FALSE,
                                          ![t].writes = Append(@, ValidText)]
                  /\ concurrentRequests' = ReleaseToken(concurrentRequests)
             [] completion = "corrupt" ->
                  /\ task' = IF last
                             THEN [task EXCEPT ![t].pc = "addUser",
                                               ![t].response = GenerateFallback]
                             ELSE [task EXCEPT ![t].pc = "prepare"]
                  /\ concurrentRequests' = ReleaseToken(concurrentRequests)
                  /\ UNCHANGED responseCache
             [] completion = "error" ->
                  /\ IF last
                     THEN /\ task' = [task EXCEPT ![t].pc = "addUser",
                                                  ![t].allCorrupt = FALSE,
                                                  ![t].response = GenerateFallback]
                          /\ concurrentRequests' = ReleaseToken(concurrentRequests)
                     ELSE /\ task' = [task EXCEPT ![t].pc = "sleep",
                                                  ![t].allCorrupt = FALSE]
                          /\ UNCHANGED concurrentRequests
                  /\ UNCHANGED responseCache
        /\ UNCHANGED <<now, ret, userBuckets, globalRequests, cacheVars,
                       pc, attempt, outcome, releases, conversation,
                       userCooldowns, appended, arrivals, textVars, searchVars, genVars>>

\* The completion call returns: valid text is cached and returned; corrupt
\* text or an error ends the attempt, the last one with the fallback.
GenerateCompletion(t, completion) ==
    LET last == task[t].attempt = MaxAttempts
    IN  /\ program = "index"
        /\ task[t].pc = "completion"
        /\ CASE completion = "valid" ->
                  /\ responseCache' =
                        EnhancedCacheSet(responseCache, apiCache, task[t].message,
                                         ValidText, RESPONSE_CACHE_TTL, FALSE).cache
                  /\ task' = [task EXCEPT ![t].pc = "addUser",
                                          ![t].response = Generated(ValidText, "model"),
                                          ![t].allCorrupt = FALSE,
                                          ![t].writes = Append(@, ValidText)]
                  /\ concurrentRequests' = ReleaseToken(concurrentRequests)
             [] completion = "corrupt" ->
                  /\ task' = IF last
                             THEN [task EXCEPT ![t].pc = "addUser",
                                               ![t].response = GenerateFallback]
                             ELSE [task EXCEPT ![t].pc = "prepare"]
                  /\ concurrentRequests' = ReleaseToken(concurrentRequests)
                  /\ UNCHANGED responseCache
             [] completion = "error" ->
                  /\ IF last
                     THEN /\ task' = [task EXCEPT ![t].pc = "addUser",
                                                  ![t].allCorrupt = FALSE,
                                                  ![t].response = GenerateFallback]
                          /\ concurrentRequests' = ReleaseToken(concurrentRequests)
                     ELSE /\ task' = [task EXCEPT ![t].pc = "sleep",
                                                  ![t].allCorrupt = FALSE]
                          /\ UNCHANGED concurrentRequests
                  /\ UNCHANGED responseCache
        /\ UNCHANGED <<now, ret, userBuckets, globalRequests, cacheVars,
                       pc, attempt, outcome, releases, conversation,
                       userCooldowns, appended, arrivals, textVars, searchVars, genVars>>

\* The sleep after a failed call ends and the attempt's finally runs.
GenerateSleep(t) ==
    /\ program = "index"
    /\ task[t].pc = "sleep"
    /\ task' = [task EXCEPT ![t].pc = "prepare"]
    /\ concurrentRequests' = ReleaseToken(concurrentRequests)
    /\ UNCHANGED <<now, ret, userBuckets, globalRequests, cacheVars, replyVars,
                   conversation, userCooldowns, appended, arrivals, textVars, searchVars, genVars>>

\* handleReply: addMessage(userId, 'user', userMessage).
HandleReplyAddUser(t) ==
    /\ program = "index"
    /\ task[t].pc = "addUser"
    /\ conversation' = AddMessage(conversation, "user", task[t].message)
    /\ task' = [task EXCEPT ![t].pc = "addAssistant", ![t].userAppends = @ + 1]
    /\ Logged(1)
    /\ UNCHANGED <<now, ret, rlVars, cacheVars, replyVars, userCooldowns,
                   arrivals, textVars, searchVars, genVars>>

\* handleReply: addMessage(userId, 'assistant', response.text, ...).
HandleReplyAddAssistant(t) ==
    /\ program = "index"
    /\ task[t].pc = "addAssistant"
    /\ conversation' = AddMessage(conversation, "assistant",
                                  Prop(task[t].response, "text"))
    /\ task' = [task EXCEPT ![t].pc = "reply", ![t].assistantAppends = @ + 1]
    /\ Logged(1)
    /\ UNCHANGED <<now, ret, rlVars, cacheVars, replyVars, userCooldowns,
                   arrivals, textVars, searchVars, genVars>>

\* handleReply: message.reply({ content: response.text }), which the platform
\* may reject, and the log entry that reads response.text.length, which
\* throws when response.text is undefined; then catch or the finally block.
HandleReplyRespond(t, delivery) ==
    /\ program = "index"
    /\ task[t].pc = "reply"
    /\ ret' = [op |-> "reply",
               value |-> IF delivery = "ok" THEN Prop(task[t].response, "text")
                                            ELSE "apology",
               response |-> task[t].response, delivery |-> delivery]
    /\ IF delivery = "ok" /\ Prop(task[t].response, "text") # Undefined
       THEN /\ task' = [task EXCEPT ![t] = NoTask]
            /\ concurrentRequests' = ReleaseToken(concurrentRequests)
            /\ arrivals' = Forget(arrivals, t)
            /\ UNCHANGED <<conversation, appended>>
       ELSE HandleReplyCaught(t)
    /\ UNCHANGED <<now, userBuckets, globalRequests, cacheVars, replyVars,
                   userCooldowns, textVars, searchVars, genVars>>

\* A response-cache key is `response:` and an md5 digest in hex: the user id
\* is not a substring of it.
KeyIncludes(key, userId) == FALSE

\* The mention slot is free again; it keeps the count of mentions handled.
MentionDone(tsk) == [tsk EXCEPT ![Mention] = [NoTask EXCEPT !.calls = tsk[Mention].calls]]

\* handleMention up to its first await.  reset clears the conversation; fix
\* clears it and deletes the cache keys that include the user id; intro
\* replies first.
HandleMentionArrive(command, most) ==
    LET cleared == command \in {"reset", "fix"}
        next == IF command = "fix" THEN "fixGreeting" ELSE "introReplied"
        counted == [task EXCEPT ![Mention] =
                       [Fresh("mention", command, next)
                           EXCEPT !.calls = task[Mention].calls + 1]]
        held == IF cleared THEN Detached(counted) ELSE counted
    IN  /\ program = "index"
        /\ task[Mention].pc = "idle"
        /\ task[Mention].calls < most
        /\ task' = IF command = "reset" THEN MentionDone(held) ELSE held
        /\ conversation' = IF cleared THEN <<>> ELSE conversation
        /\ appended' = IF cleared THEN 0 ELSE appended
        /\ responseCache' =
              IF command = "fix"
              THEN [k \in DOMAIN responseCache |->
                      IF KeyIncludes(k, Principal) THEN NoItem ELSE responseCache[k]]
              ELSE responseCache
        /\ UNCHANGED <<now, ret, rlVars, cacheVars, pc, attempt, outcome, releases,
                       userCooldowns, arrivals, textVars, searchVars, genVars>>

\* handleMention after its replies: addMessage(userId, 'assistant', ...) with
\* the introduction or the greeting of fix.
HandleMentionAddMessage ==
    /\ program = "index"
    /\ task[Mention].pc \in {"introReplied", "fixGreeting"}
    /\ conversation' = AddMessage(conversation, "assistant", "greeting")
    /\ task' = MentionDone(task)
    /\ Logged(1)
    /\ UNCHANGED <<now, ret, rlVars, cacheVars, replyVars, userCooldowns,
                   arrivals, textVars, searchVars, genVars>>

\* The periodic sweep on conversations: an entry whose last message carries a
\* timestamp more than an hour old is deleted.  A handler's awaits end within
\* seconds, so the hour has passed only when no handler is running.
SweepConversations ==
    /\ program = "index"
    /\ \A t \in Slots : task[t].pc = "idle"
    /\ Len(conversation) > 0
    /\ conversation[Len(conversation)].stamped
    /\ conversation' = <<>>
    /\ task' = Detached(task)
    /\ appended' = 0
    /\ UNCHANGED <<now, ret, rlVars, cacheVars, replyVars, userCooldowns,
                   arrivals, textVars, searchVars, genVars>>

(***************************************************************************)
(* handleMancyResponse, generateMancyResponse and the mention handler      *)
(* (src/unnamed/part_000)                                                  *)
(***************************************************************************)
\* history.splice(1, history.length - maxMessages) when the array is longer
\* than 1 + maxHistory * 2.
Spliced(history) ==
    IF Len(history) > 1 + maxHistory * 2
    THEN <<history[1]>> \o
         SubSeq(history, Len(history) - (1 + maxHistory * 2) + 2, Len(history))
    ELSE history

\* What generateMancyResponse returns is a string.
MancyString(value) == [kind |-> "string", value |-> value]

\* conversationHistory.delete(userId).
HistoryDeleted ==
    /\ conversation' = <<>>
    /\ appended' = 0

\* handleMancyResponse up to its first await: the cooldown test (a reply in
\* cooldown is ignored and changes nothing), the cooldown entry, the history
\* entry made when absent, and the reference to the stored array.
HandleMancyResponseArrive(t, message) ==
    LET lastResponse == userCooldowns
    IN  /\ program = "part_000"
        /\ FreeSlot(t)
        /\ ~(lastResponse # 0 /\ (now - lastResponse) < COOLDOWN_TIME)
        /\ userCooldowns' = now
        /\ conversation' = IF conversation = <<>> THEN <<SystemTurn>> ELSE conversation
        /\ task' = [task EXCEPT ![t] =
                       [Fresh("reply", message, "mancyTyping") EXCEPT !.ref = "stored"]]
        /\ arrivals' = Append(arrivals, t)
        /\ UNCHANGED <<now, ret, rlVars, cacheVars, replyVars, appended, textVars, searchVars, genVars>>

\* history.push on the array the handler holds: the stored one, or one that
\* was deleted from the Map in the meantime.
HistoryPush(t, turns) ==
    IF task[t].ref = "stored"
    THEN /\ conversation' = turns
         /\ Logged(1)
    ELSE UNCHANGED <<conversation, appended>>

\* sendTyping returns: the user's message is pushed, the history is limited
\* and the first completion call is issued; a throw goes to catch.
HandleMancyResponseTyping(t, outcomeOfTyping) ==
    /\ program = "part_000"
    /\ task[t].pc = "mancyTyping"
    /\ IF outcomeOfTyping = "ok"
       THEN /\ HistoryPush(t, Spliced(Append(conversation,
                                             Turn("user", task[t].message, FALSE))))
            /\ task' = [task EXCEPT ![t].pc = "mancyCompletion",
                                    ![t].attempt = 1, ![t].calls = 1,
                                    ![t].userAppends =
                                        IF task[t].ref = "stored" THEN @ + 1 ELSE @]
       ELSE /\ task' = [task EXCEPT ![t].pc = "mancyCatch"]
            /\ UNCHANGED <<conversation, appended>>
    /\ UNCHANGED <<now, ret, rlVars, cacheVars, replyVars, userCooldowns,
                   arrivals, textVars, searchVars, genVars>>

\* generateMancyResponse has returned `value`: it is pushed as the
\* assistant's turn and cached under the message's hash, whichever it is.
MancyResponded(t, value, corrupt) ==
    /\ HistoryPush(t, Append(conversation, Turn("assistant", value, FALSE)))
    /\ cache' = SmartCacheSet(cache, task[t].message, value, MANCY_CACHE_TTL)
    /\ task' = [task EXCEPT ![t].pc = "mancyReply",
                            ![t].response = MancyString(value),
                            ![t].allCorrupt = @ /\ corrupt,
                            ![t].assistantAppends =
                                IF task[t].ref = "stored" THEN @ + 1 ELSE @,
                            ![t].writes = Append(@, value)]

\* A completion call returns.  Valid text is returned; corrupt text makes
\* the next call at once, an error makes it after a pause; the last attempt
\* returns the fallback.
GenerateMancyResponseCompletion(t, completion) ==
    LET last == task[t].attempt = MaxAttempts
    IN  /\ program = "part_000"
        /\ task[t].pc = "mancyCompletion"
        /\ CASE completion = "valid" -> MancyResponded(t, ValidText, FALSE)
             [] completion = "corrupt" /\ last -> MancyResponded(t, FallbackText, TRUE)
             [] completion = "error" /\ last -> MancyResponded(t, FallbackText, FALSE)
             [] completion = "corrupt" /\ ~last ->
                  /\ task' = [task EXCEPT ![t].attempt = @ + 1, ![t].calls = @ + 1]
                  /\ UNCHANGED <<conversation, appended, cache>>
             [] completion = "error" /\ ~last ->
                  /\ task' = [task EXCEPT ![t].pc = "mancySleep",
                                          ![t].allCorrupt = FALSE]
                  /\ UNCHANGED <<conversation, appended, cache>>
        /\ UNCHANGED <<now, ret, rlVars, program, memoryCache, apiCache,
                       dbInitialized, insertionOrder, replyVars, userCooldowns,
                       arrivals, textVars, searchVars, genVars>>

\* The pause after a failed call ends and the next call is issued.
GenerateMancyResponseSleep(t) ==
    /\ program = "part_000"
    /\ task[t].pc = "mancySleep"
    /\ task' = [task EXCEPT ![t].pc = "mancyCompletion",
                            ![t].attempt = @ + 1, ![t].calls = @ + 1]
    /\ UNCHANGED <<now, ret, rlVars, cacheVars, replyVars, conversation,
                   userCooldowns, appended, arrivals, textVars, searchVars, genVars>>

\* message.reply({ content: response }) returns or throws.
HandleMancyResponseReply(t, delivery) ==
    /\ program = "part_000"
    /\ task[t].pc = "mancyReply"
    /\ IF delivery = "ok"
       THEN /\ task' = [task EXCEPT ![t] = NoTask]
            /\ ret' = [op |-> "reply", value |-> task[t].response.value,
                       response |-> task[t].response]
            /\ arrivals' = Forget(arrivals, t)
       ELSE /\ task' = [task EXCEPT ![t].pc = "mancyCatch"]
            /\ UNCHANGED <<ret, arrivals>>
    /\ UNCHANGED <<now, rlVars, cacheVars, replyVars, conversation,
                   userCooldowns, appended, textVars, searchVars, genVars>>

\* catch, after the apology: the principal's history and cooldown entries
\* are deleted.
HandleMancyResponseCatch(t) ==
    /\ program = "part_000"
    /\ task[t].pc = "mancyCatch"
    /\ HistoryDeleted
    /\ userCooldowns' = 0
    /\ task' = [Detached(task) EXCEPT ![t] = NoTask]
    /\ ret' = [op |-> "reply", value |-> "apology", response |-> task[t].response]
    /\ arrivals' = Forget(arrivals, t)
    /\ UNCHANGED <<now, rlVars, cacheVars, replyVars, textVars, searchVars, genVars>>

\* A mention: reset deletes the history; anything else but help sends the
\* introduction.
MancyMentionArrive(command, most) ==
    LET counted == [task EXCEPT ![Mention] =
                       [Fresh("mention", command, "mancyIntroReplied")
                           EXCEPT !.calls = task[Mention].calls + 1]]
    IN  /\ program = "part_000"
        /\ task[Mention].pc = "idle"
        /\ task[Mention].calls < most
        /\ IF command = "reset"
           THEN /\ HistoryDeleted
                /\ task' = MentionDone(Detached(counted))
           ELSE /\ task' = counted
                /\ UNCHANGED <<conversation, appended>>
        /\ UNCHANGED <<now, ret, rlVars, cacheVars, replyVars, userCooldowns,
                       arrivals, textVars, searchVars, genVars>>

\* After the introduction was sent the history is set to the system turn
\* and the introduction.
MancyMentionInitialize ==
    /\ program = "part_000"
    /\ task[Mention].pc = "mancyIntroReplied"
    /\ conversation' = <<SystemTurn, Turn("assistant", "greeting", FALSE)>>
    /\ appended' = 0
    /\ task' = MentionDone(Detached(task))
    /\ UNCHANGED <<now, ret, rlVars, cacheVars, replyVars, userCooldowns,
                   arrivals, textVars, searchVars, genVars>>

NextMancy(slots, most) ==
    \/ \E t \in slots, message \in Messages : HandleMancyResponseArrive(t, message)
    \/ \E t \in slots, o \in {"ok", "throw"} : HandleMancyResponseTyping(t, o)
    \/ \E t \in slots, c \in {"valid", "corrupt", "error"} :
          GenerateMancyResponseCompletion(t, c)
    \/ \E t \in slots : GenerateMancyResponseSleep(t)
    \/ \E t \in slots, d \in {"ok", "throw"} : HandleMancyResponseReply(t, d)
    \/ \E t \in slots : HandleMancyResponseCatch(t)
    \/ \E c \in {"intro", "reset"} : MancyMentionArrive(c, most)
    \/ MancyMentionInitialize

TickChat ==
    /\ program = "part_000"
    /\ now + COOLDOWN_TIME <= MaxNowChat
    /\ now' = now + COOLDOWN_TIME
    /\ UNCHANGED <<ret, rlVars, cacheVars, replyVars, chatVars, textVars, searchVars, genVars>>

NextChatIndex ==
    \/ \E t \in Tasks, message \in Messages : HandleReplyArrive(t, message)
    \/ \E t \in Tasks, o \in {"ok", "throw", "empty"} : HandleReplyTyping(t, o)
    \/ \E t \in Tasks : GenerateCacheGet(t)
    \/ \E t \in Tasks : PrepareContextBegin(t)
    \/ \E t \in Tasks : PrepareContextEnd(t)
    \/ \E t \in Tasks, c \in {"valid", "corrupt", "error"} : GenerateCompletion(t, c)
    \/ \E t \in Tasks : GenerateSleep(t)
    \/ \E t \in Tasks : HandleReplyAddUser(t)
    \/ \E t \in Tasks : HandleReplyAddAssistant(t)
    \/ \E t \in Tasks, d \in {"ok", "throw"} : HandleReplyRespond(t, d)
    \/ \E c \in {"intro", "reset", "fix"} : HandleMentionArrive(c, MaxMentionsChat)
    \/ HandleMentionAddMessage

NextChat ==
    \/ NextChatIndex
    \/ NextMancy(Tasks, MaxMentionsChat)
    \/ TickChat

SpecChat == InitChat /\ [][NextChat]_vars

\* One reply at a time; three can be admitted before the bucket is empty.
First == "A"
InitHistory == InitConversations(GLOBAL_RATE_LIMIT - 3)

TickHistory ==
    /\ program = "part_000"
    /\ now + COOLDOWN_TIME <= MaxNowHistory
    /\ now' = now + COOLDOWN_TIME
    /\ UNCHANGED <<ret, rlVars, cacheVars, replyVars, chatVars, textVars, searchVars, genVars>>

NextHistoryIndex ==
    \/ \E message \in Messages : HandleReplyArrive(First, message)
    \/ \E o \in {"ok", "throw", "empty"} : HandleReplyTyping(First, o)
    \/ GenerateCacheGet(First)
    \/ PrepareContextBegin(First)
    \/ PrepareContextEnd(First)
    \/ \E c \in {"valid", "corrupt", "error"} : GenerateCompletion(First, c)
    \/ GenerateSleep(First)
    \/ HandleReplyAddUser(First)
    \/ HandleReplyAddAssistant(First)
    \/ \E d \in {"ok", "throw"} : HandleReplyRespond(First, d)
    \/ \E c \in {"intro", "reset", "fix"} : HandleMentionArrive(c, MaxMentions)
    \/ HandleMentionAddMessage
    \/ SweepConversations

NextHistory ==
    \/ NextHistoryIndex
    \/ NextMancy({First}, MaxMentions)
    \/ TickHistory

SpecHistory == InitHistory /\ [][NextHistory]_vars

(***************************************************************************)
(* Claims                                                                  *)
(***************************************************************************)
Denied(r) == outcome[r] \in {"wait", "silent"}
Admitted(r) == pc[r] # "idle" /\ ~Denied(r)
InFlight == {r \in Reqs : Admitted(r) /\ pc[r] # "done"}

\* C1: every admitted request has called releaseToken exactly once by the
\* time handleReply has finished, on every exit path.
C1_ReleasedExactlyOnce ==
    \A r \in Reqs : (Admitted(r) /\ pc[r] = "done") => releases[r] = 1

\* C2: the number of admitted requests that have not finished never exceeds
\* MAX_CONCURRENT_REQUESTS.
C2_InFlightWithinCap == Cardinality(InFlight) <= MAX_CONCURRENT_REQUESTS

\* C3: every stored bucket has 0 <= tokens <= capacity.
C3_TokensWithinCapacity ==
    \A u \in Users :
        userBuckets[u] # NoBucket =>
            /\ userBuckets[u].tokens >= 0
            /\ userBuckets[u].tokens <= GLOBAL_RATE_LIMIT

\* C3 witness: one bucket has been drained to 0 and another has been refilled
\* to capacity by a later call.
C3_Witness ==
    \E u, v \in Users :
        /\ userBuckets[u] # NoBucket /\ userBuckets[u].tokens = 0
        /\ userBuckets[v] # NoBucket
        /\ userBuckets[v].tokens = GLOBAL_RATE_LIMIT
        /\ userBuckets[v].lastRefill >= RefillIntervalMs

\* The three reasons for denial, on the bucket as refilled and the window as
\* pruned at the current time.
NoTokens(u) == Refill(BucketOrNew(userBuckets, u)).tokens <= 0
WindowFull == Len(PruneWindow(globalRequests)) >= GlobalMultiplier * GLOBAL_RATE_LIMIT
ConcurrencyAtMax == concurrentRequests >= MAX_CONCURRENT_REQUESTS

\* C4: consumeToken(p) returns false exactly when p has no tokens, or the
\* global window is full, or the concurrency is at its maximum.
C4_DenialExact ==
    \A u \in Users :
        ConsumeToken(u).ok = ~(NoTokens(u) \/ WindowFull \/ ConcurrencyAtMax)

\* C4 witness: consumeToken has denied, and the window is full while a
\* principal with tokens and a free slot is denied on the window alone.
C4_Witness ==
    /\ ret = [op |-> "consumeToken", value |-> FALSE]
    /\ WindowFull
    /\ ~ConcurrencyAtMax
    /\ \E u \in Users : ~NoTokens(u) /\ ~ConsumeToken(u).ok

\* C5: a denied request always gets a reply that carries the time to wait.
C5_DeniedGetsWaitReply ==
    \A r \in Reqs : Denied(r) => outcome[r] = "wait"

\* get(key) on the searchCache of the running program.
CacheGet(key, useDatabase) ==
    IF program = "part_000"
    THEN SmartCacheGet(cache, key)
    ELSE EnhancedCacheGet(memoryCache, apiCache, key, useDatabase)

\* C6: set(k, v, ttl) with ttl > 0 and v not null, then get(k) at once,
\* returns v, in both caches and also when the cache was at capacity.
C6_SetThenGet ==
    \A k \in Keys, v \in Values, t \in TTLs \cup {SHORT_NEGATIVE_TTL, SEARCH_CACHE_TTL} :
        t > 0 =>
            IF program = "part_000"
            THEN SmartCacheGet(SmartCacheSet(cache, k, v, t), k).value = v
            ELSE \A p, d \in BOOLEAN :
                    LET put == EnhancedCacheSet(memoryCache, apiCache, k, v, t, p)
                    IN  EnhancedCacheGet(put.cache, put.rows, k, d).value = v

\* C6 witness: the SmartCache is at capacity and a get has just returned the
\* value of the key inserted last.
C6_Witness ==
    /\ program = "part_000"
    /\ Len(cache) = MaxSize
    /\ Len(insertionOrder) = MaxSize
    /\ ret.op = "get"
    /\ ret.value \in Values
    /\ ret.value = MapGet(cache, insertionOrder[MaxSize]).data
    /\ ret.value # MapGet(cache, insertionOrder[1]).data

\* C7: get(k) never returns a value at or after the expiry given by the
\* set() that stored it.
C7_AbsentAfterExpiry ==
    \A k \in Keys, d \in BOOLEAN :
        LET got == CacheGet(k, d)
        IN  got.value # Null => now < got.setExpiry

\* A negative entry for key is stored and within its TTL.
LiveNegative(key) ==
    IF program = "part_000"
    THEN MapHas(cache, key) /\ MapGet(cache, key).data = Null
            /\ now < MapGet(cache, key).expiry
    ELSE memoryCache[key] # NoItem /\ memoryCache[key].data = Null
            /\ now < memoryCache[key].expiry

SearchWikipedia(key, answer) ==
    IF program = "part_000"
    THEN SearchWikipediaSmart(cache, key, answer)
    ELSE SearchWikipediaEnhanced(memoryCache, apiCache, key, answer)

\* C8: with a live negative entry for the term, searchWikipedia takes it as
\* the cached answer and does not issue the external lookup.
C8_NegativeEntryIsCachedAnswer ==
    \A k \in Keys, a \in Answers :
        LiveNegative(k) => ~SearchWikipedia(k, a).fetched

\* C9: the number of entries a cache holds in memory never exceeds its
\* fixed maximum.
C9_SizeBounded ==
    IF program = "part_000"
    THEN Len(cache) <= MaxSize
    ELSE EnhancedCacheSize(memoryCache) <= MaxSize

\* C10: SmartCache.set of a key not present, at size = maxSize, removes
\* exactly the entry inserted earliest; a get that hits does not change which
\* entry the next set evicts.
C10_FifoEviction ==
    program = "part_000" =>
        /\ Len(insertionOrder) = Len(cache)
        /\ \A k \in Keys \ MapKeys(cache), v \in Values \cup {Null}, t \in TTLs :
              Len(cache) = MaxSize =>
                  MapKeys(SmartCacheSet(cache, k, v, t)) =
                      (MapKeys(cache) \ {Head(insertionOrder)}) \cup {k}
        /\ \A h \in MapKeys(cache) :
              ~(now > MapGet(cache, h).expiry) =>
                  SmartCacheEvict(SmartCacheGet(cache, h).cache) = SmartCacheEvict(cache)

\* C10 witness: at capacity, a get has just hit the entry inserted earliest,
\* which is still the first key of the Map.
C10_Witness ==
    /\ program = "part_000"
    /\ Len(cache) = MaxSize
    /\ Len(insertionOrder) = MaxSize
    /\ ret.op = "get"
    /\ ret.value \in Values
    /\ ret.value = MapGet(cache, insertionOrder[1]).data
    /\ ret.value # MapGet(cache, insertionOrder[MaxSize]).data
    /\ cache[1].key = insertionOrder[1]

(***************************************************************************)
(* Conversation history                                                    *)
(***************************************************************************)
\* C11: a principal's stored conversation never holds more than
\* 1 + 2 * maxHistoryPairs turns (the system turn and the most recent
\* exchanges), and holds exactly that many once 2 * maxHistoryPairs + 5 or
\* more turns have been appended to it.
C11_HistoryBounded ==
    /\ Len(conversation) <= MaxTurns
    /\ appended >= EnoughTurns => Len(conversation) = MaxTurns

\* C12: in index.js every non-empty stored conversation has the system turn
\* at index 0 and at no other index, after any sequence of handleMention,
\* handleReply, addMessage, prepareContext, clearConversation and sweeps.
C12_SystemTurnFirst ==
    (program = "index" /\ Len(conversation) > 0) =>
        /\ conversation[1].role = "system"
        /\ \A i \in 2..Len(conversation) : conversation[i].role # "system"

\* The turns a running reply has appended to the stored conversation.
Appends(tsk) == tsk.userAppends + tsk.assistantAppends

\* a arrived before b and both are running.
ArrivedBefore(a, b) ==
    \E i, j \in 1..Len(arrivals) : i < j /\ arrivals[i] = a /\ arrivals[j] = b

\* C14: for two requests of the same principal, every turn of the one that
\* arrived first is appended to the stored conversation before any turn of
\* the other: once the later request has appended a turn, the earlier one
\* appends no more.
C14_AppendsInArrivalOrder ==
    [][\A a, b \in Tasks :
          (ArrivedBefore(a, b) /\ Appends(task[b]) > 0 /\ task'[a].pc # "idle") =>
              Appends(task'[a]) = Appends(task[a])]_vars

\* The reply just sent answered a request whose generate call hit the cache.
RepliedFromCache == ret.op = "reply" /\ ret.response.kind = "string"

\* C15: in index.js, when generate finds a live entry under the request's
\* key it returns a result whose text is the cached text and whose fromCache
\* is true, with no completion call, and handleReply replies with that text.
C15_CacheHitReturnsCachedText ==
    /\ \A t \in Tasks :
          (program = "index" /\ task[t].response.kind = "string") =>
              /\ task[t].calls = 0
              /\ Prop(task[t].response, "text") = task[t].response.value
              /\ Prop(task[t].response, "fromCache") = TRUE
    /\ (program = "index" /\ RepliedFromCache) => ret.value = ret.response.value

\* generate / generateMancyResponse has returned to the reply handler.
GenerateReturned(tsk) ==
    tsk.kind = "reply" /\ tsk.response # NoResponse
Succeeded(tsk) ==
    IF program = "index"
    THEN tsk.response.kind = "string" \/ Prop(tsk.response, "text") = ValidText
    ELSE tsk.response.value = ValidText
FallbackUsed(tsk) ==
    IF program = "index"
    THEN Prop(tsk.response, "model") = "fallback"
    ELSE tsk.response.value = FallbackText

\* C16: for any behaviour of the completion service on each call, generate
\* makes at most 3 completion calls and has then returned valid text or the
\* fallback; when every call returns corrupt text it returns the fallback
\* after exactly 3 calls (index.js generate, part_000 generateMancyResponse).
C16_AtMostThreeCalls ==
    \A t \in Tasks :
        /\ task[t].calls <= MaxAttempts
        /\ task[t].attempt <= MaxAttempts
        /\ (task[t].pc \in {"completion", "mancyCompletion"}) =>
              task[t].calls = task[t].attempt
        /\ GenerateReturned(task[t]) =>
              /\ Succeeded(task[t]) \/ FallbackUsed(task[t])
              /\ task[t].allCorrupt =>
                    (task[t].calls = 0 \/
                     (FallbackUsed(task[t]) /\ task[t].calls = MaxAttempts))
        /\ (task[t].pc \in {"prepare", "sleep", "mancySleep"}) =>
              task[t].attempt < MaxAttempts

\* C16 witness: three calls returned corrupt text and the fallback was returned.
C16_Witness ==
    \E t \in Tasks :
        /\ GenerateReturned(task[t])
        /\ task[t].allCorrupt
        /\ task[t].calls = MaxAttempts
        /\ FallbackUsed(task[t])

\* C17: a request's response is written to the response cache exactly once
\* when it succeeded, and never with the fallback text (generate in
\* index.js, handleMancyResponse in part_000).
C17_CacheWrittenOnSuccessOnly ==
    \A t \in Tasks :
        /\ \A i \in 1..Len(task[t].writes) : task[t].writes[i] # FallbackText
        /\ (task[t].pc \in {"reply", "mancyReply"}
               /\ Succeeded(task[t]) /\ task[t].calls > 0) =>
              Len(task[t].writes) = 1

\* C18: handling one request appends exactly one exchange to the
\* principal's history (the user's message once, the assistant's text once)
\* when generation succeeded on any attempt, and nothing when the result is
\* the fallback (index.js generate and handleReply; part_000
\* handleMancyResponse).
C18_OneExchangePerRequest ==
    \A t \in Tasks :
        (task[t].pc \in {"reply", "mancyReply"} /\ task[t].calls > 0) =>
            /\ (Succeeded(task[t]) /\ task[t].ref # "detached") =>
                  (task[t].userAppends = 1 /\ task[t].assistantAppends = 1)
            /\ FallbackUsed(task[t]) => Appends(task[t]) = 0

(***************************************************************************)
(* TextUtils.normalizeText, TextUtils.validateResponse (src/index.js),     *)
(* normalizeText, validateResponse (src/unnamed/part_000)                  *)
(*                                                                         *)
(* A string is a sequence of characters.  The characters are named:        *)
(* "sp" is the space, "ctl" a control character of [\x00-\x08], "Acirc" is *)
(* U+00C2, "acirc" U+00E2, "Atilde" U+00C3, "atilde" U+00E3, "pound"       *)
(* U+00A3, "iquest" U+00BF, "zwsp" U+200B, "ldquo" U+201C, "dquote" U+0022,*)
(* "dot" the full stop.                                                    *)
(***************************************************************************)
MaxLen == 3
MaxTokens == 7

Letters == {"a", "b"}
Chars == Letters \cup {"sp", "ctl", "Acirc", "iquest", "zwsp", "Atilde", "pound", "ldquo"}
Words == {<<"a">>, <<"b">>, <<"a", "b">>}

SeqsUpTo(S, n) == UNION {[1..k -> S] : k \in 0..n}

\* Array.prototype.join(' ') on words.
RECURSIVE Join(_)
Join(ws) ==
    IF Len(ws) = 0 THEN <<>>
    ELSE IF Len(ws) = 1 THEN ws[1]
    ELSE ws[1] \o <<"sp">> \o Join(Tail(ws))

\* toUpperCase of a character; it is also the canonical form the `i` flag
\* of a regular expression compares.
ToUpperCase(c) ==
    CASE c = "a" -> "A"
      [] c = "b" -> "B"
      [] c = "acirc" -> "Acirc"
      [] c = "atilde" -> "Atilde"
      [] OTHER -> c

\* text.replace(new RegExp(pattern, 'gi'), replacement) for a pattern of
\* literal characters: every match, scanning from the left; what is
\* inserted is not scanned again.
RECURSIVE ReplaceAll(_, _, _)
ReplaceAll(s, pattern, replacement) ==
    IF Len(s) < Len(pattern) THEN s
    ELSE IF \A i \in 1..Len(pattern) : ToUpperCase(s[i]) = ToUpperCase(pattern[i])
    THEN replacement \o ReplaceAll(SubSeq(s, Len(pattern) + 1, Len(s)), pattern, replacement)
    ELSE <<s[1]>> \o ReplaceAll(Tail(s), pattern, replacement)

\* The entries of the substitution table, in the order of its keys, whose
\* characters are all in Chars; every other key holds a character that no
\* string over Chars contains.
EncodingMap ==
    << [pattern |-> <<"Atilde", "pound">>, replacement |-> <<"atilde">>],
       [pattern |-> <<"Acirc", "iquest">>, replacement |-> <<"iquest">>] >>

\* Object.keys(encodingMap).forEach(...): the entries are applied one after
\* the other, from entry i on.
RECURSIVE Corrected(_, _)
Corrected(s, i) ==
    IF i > Len(EncodingMap) THEN s
    ELSE Corrected(ReplaceAll(s, EncodingMap[i].pattern, EncodingMap[i].replacement), i + 1)

Without(s, removed) == SelectSeq(s, LAMBDA c : c \notin removed)

\* replace(/\s+/g, ' ')
RECURSIVE CollapseSpaces(_)
CollapseSpaces(s) ==
    IF Len(s) = 0 THEN s
    ELSE IF s[1] = "sp" /\ Len(s) > 1 /\ s[2] = "sp" THEN CollapseSpaces(Tail(s))
    ELSE <<s[1]>> \o CollapseSpaces(Tail(s))

\* String.prototype.trim
RECURSIVE Trim(_)
Trim(s) ==
    IF Len(s) = 0 THEN s
    ELSE IF s[1] = "sp" THEN Trim(Tail(s))
    ELSE IF s[Len(s)] = "sp" THEN Trim(SubSeq(s, 1, Len(s) - 1))
    ELSE s

\* replace(/[“”]/g, '"')
NormalizeQuotes(s) == [i \in 1..Len(s) |-> IF s[i] = "ldquo" THEN "dquote" ELSE s[i]]

\* normalizeText, the same steps in both programs: control characters are
\* stripped, the substitution table is applied, zero-width and bidi
\* characters are removed, whitespace is collapsed and trimmed, quotes are
\* normalized.
normalizeText(s) ==
    NormalizeQuotes(Trim(CollapseSpaces(
        Without(Corrected(Without(s, {"ctl"}), 1), {"zwsp"}))))

NonAscii == {"Acirc", "acirc", "Atilde", "atilde", "pound", "iquest", "zwsp", "ldquo"}
WordChars == {"a", "b", "A", "B"}
\* The characters of [a-zA-ZáéíóúñÁÉÍÓÚÑ0-9\s¿¡.,!?;:"'()-].
MancyAllowed == WordChars \cup {"sp", "iquest", "dot", "dquote"}

\* A run of n or more consecutive characters satisfying Member starts at i.
RunAt(s, i, n, Member(_)) ==
    /\ i + n - 1 <= Len(s)
    /\ \A k \in 0..(n - 1) : Member(s[i + k])

\* /[^\x00-\x7F]{10,}/
LongNonAsciiRun(s) == \E i \in 1..Len(s) : RunAt(s, i, 10, LAMBDA c : c \in NonAscii)

\* /(.)\1{n,}/ : a character followed by n or more copies of itself.
RepeatedChar(s, n, S) ==
    \E i \in 1..Len(s) : s[i] \in S /\ RunAt(s, i, n + 1, LAMBDA c : c = s[i])

\* /(\b\w\b\s+){6,}/ on a text whose whitespace is single spaces: six
\* one-letter words in a row, each followed by a space.
SingleLetterWords(s) ==
    \E i \in 1..Len(s) :
        /\ i = 1 \/ s[i - 1] \notin WordChars
        /\ i + 11 <= Len(s)
        /\ \A k \in 0..5 : s[i + 2 * k] \in WordChars /\ s[i + 2 * k + 1] = "sp"

\* normalized.split(/\s+/) on a text whose whitespace is single spaces.
RECURSIVE Split(_)
Split(s) ==
    IF \A i \in 1..Len(s) : s[i] # "sp" THEN <<s>>
    ELSE LET i == CHOOSE j \in 1..Len(s) : s[j] = "sp" /\ \A k \in 1..(j - 1) : s[k] # "sp"
         IN  <<SubSeq(s, 1, i - 1)>> \o Split(SubSeq(s, i + 1, Len(s)))

\* The correction both programs make to a valid text: a capital first
\* character and a final full stop.
Capitalized(s) ==
    IF s[1] \in {"A", "B", "iquest"} THEN s ELSE <<ToUpperCase(s[1])>> \o Tail(s)
\* Faulty variant of Ended: no full stop is appended.
Ended_Unchanged(s) == s
Ended(s) == IF s[Len(s)] \in {"dot", "iquest"} THEN s ELSE Append(s, "dot")

Invalid == [valid |-> FALSE, corrected |-> <<>>]
Valid(s) == [valid |-> TRUE, corrected |-> Ended(Capitalized(s))]

\* TextUtils.validateResponse (src/index.js); a text over Chars never holds
\* the replacement character of /�+/.
ValidateResponseIndex(response) ==
    LET normalized == Trim(response)
    IN  IF Len(response) = 0 THEN Invalid
        ELSE IF Len(normalized) < 2 THEN Invalid
        ELSE IF LongNonAsciiRun(normalized) THEN Invalid
        ELSE IF RepeatedChar(normalized, 10, {normalized[i] : i \in 1..Len(normalized)})
        THEN Invalid
        ELSE Valid(normalized)

\* validateResponse (src/unnamed/part_000); no text over Chars matches the
\* patterns on 'n', 'tengo' and the replacement character.
ValidateResponseMancy(response) ==
    LET normalized == normalizeText(response)
        validWords == SelectSeq(Split(normalized),
                                LAMBDA w : Len(w) >= 2 /\ \E i \in 1..Len(w) : w[i] \in WordChars)
    IN  IF Len(response) = 0 THEN Invalid
        ELSE IF Len(normalized) < 5 THEN Invalid
        ELSE IF \A i \in 1..Len(normalized) : normalized[i] \notin MancyAllowed THEN Invalid
        ELSE IF SingleLetterWords(normalized) THEN Invalid
        ELSE IF RepeatedChar(normalized, 5, WordChars) THEN Invalid
        ELSE IF Len(validWords) < 2 THEN Invalid
        ELSE Valid(normalized)

validateResponse(response) ==
    IF program = "index" THEN ValidateResponseIndex(response)
    ELSE ValidateResponseMancy(response)

(***************************************************************************)
(* ConversationManager.prepareContext: the system prompt (src/index.js)    *)
(*                                                                         *)
(* Here a string is a sequence of tokens: "w" is any text that holds no    *)
(* placeholder and no `$`; "$&", "$`" and "$'" are the replacement         *)
(* patterns of String.prototype.replace.                                   *)
(***************************************************************************)
MaxTokensOfMessage == 2
CONTEXT_SUMMARY == "{CONTEXT_SUMMARY}"
EXTERNAL_INFO == "{EXTERNAL_INFO}"
SYSTEM_PROMPT == <<"w", CONTEXT_SUMMARY, "w", EXTERNAL_INFO>>
Tokens == {"w", CONTEXT_SUMMARY, EXTERNAL_INFO, "$&", "$`", "$'"}

\* The replacement string with its `$` patterns expanded.
RECURSIVE Expanded(_, _, _, _)
Expanded(replacement, before, match, after) ==
    IF Len(replacement) = 0 THEN <<>>
    ELSE (CASE replacement[1] = "$&" -> <<match>>
            [] replacement[1] = "$`" -> before
            [] replacement[1] = "$'" -> after
            [] OTHER -> <<replacement[1]>>)
         \o Expanded(Tail(replacement), before, match, after)

\* str.replace(pattern, replacement) with a string pattern: the first
\* occurrence only.
Replace(str, pattern, replacement) ==
    IF \A i \in 1..Len(str) : str[i] # pattern THEN str
    ELSE LET i == CHOOSE j \in 1..Len(str) :
                      str[j] = pattern /\ \A k \in 1..(j - 1) : str[k] # pattern
             before == SubSeq(str, 1, i - 1)
             after == SubSeq(str, i + 1, Len(str))
         IN  before \o Expanded(replacement, before, pattern, after) \o after

\* TextUtils.summarizeContext: '' without history, else a heading and one
\* line per interaction with both texts quoted.
RECURSIVE Interactions(_)
Interactions(conversations) ==
    IF Len(conversations) = 0 THEN <<>>
    ELSE <<"w">> \o conversations[1].user_message \o <<"w">>
         \o conversations[1].bot_response \o <<"w">>
         \o Interactions(Tail(conversations))
summarizeContext(conversations) ==
    IF Len(conversations) = 0 THEN <<>>
    ELSE <<"w">> \o Interactions(SubSeq(conversations, 1, Min(3, Len(conversations))))

\* prepareContext(userId, externalInfo = null)
NoExternalInfo == [title |-> <<>>, content |-> <<>>]

\* The content prepareContext gives the system turn.
SystemPrompt(dbHistory, externalInfo) ==
    LET contextSummary == summarizeContext(dbHistory)
        withSummary == Replace(SYSTEM_PROMPT, CONTEXT_SUMMARY,
                               IF Len(contextSummary) = 0 THEN <<"w">> ELSE contextSummary)
        infoText == IF externalInfo = NoExternalInfo THEN <<"w">>
                    ELSE <<"w">> \o externalInfo.title \o <<"w">> \o externalInfo.content
    IN  Replace(withSummary, EXTERNAL_INFO, infoText)

(***************************************************************************)
(* The text functions applied to every input of a bounded set              *)
(***************************************************************************)
\* Texts of two words with or without a capital first character and with or
\* without terminal punctuation.
Sentences ==
    {first \o <<"b", "sp", "a", "b">> \o last :
        first \in {<<"a">>, <<"A">>, <<"iquest">>, <<"pound">>},
        last \in {<<>>, <<"dot">>, <<"iquest">>}}

\* The number of copies /(.)\1{10,}/ asks for after the first character.
RepeatLimit == 10

\* Texts of one letter followed by a run of capitals that is as long as the
\* repetition pattern of index.js allows, or one shorter.
Runs ==
    {<<first>> \o [i \in 1..n |-> "A"] :
        first \in {"a", "A"}, n \in {RepeatLimit - 1, RepeatLimit}}

TextInputs ==
    {[kind |-> "chars", value |-> s] : s \in SeqsUpTo(Chars, MaxLen)}
    \cup {[kind |-> "chars", value |-> Join(ws)] : ws \in SeqsUpTo(Words, MaxTokens)}
    \cup {[kind |-> "chars", value |-> s] : s \in Sentences}
    \cup {[kind |-> "chars", value |-> s] : s \in Runs}
ContextInputs ==
    {[kind |-> "context", dbHistory |-> h, externalInfo |-> e] :
        h \in {<<>>} \cup {<<[user_message |-> m, bot_response |-> <<"w">>]>> :
                              m \in SeqsUpTo(Tokens, MaxTokensOfMessage)},
        e \in {NoExternalInfo} \cup {[title |-> <<"w">>, content |-> c] : c \in SeqsUpTo(Tokens, 1)}}

InitText ==
    /\ now = 0
    /\ ret = NoCall
    /\ program \in {"index", "part_000"}
    /\ RateLimiterNew
    /\ cache = <<>>
    /\ memoryCache = [k \in Keys |-> NoItem]
    /\ apiCache = [k \in Keys |-> NoRow]
    /\ dbInitialized = FALSE
    /\ insertionOrder = <<>>
    /\ responseCache = [u \in Users |-> NoItem]
    /\ NoConversations
    /\ NoReplies
    /\ NoSearch
    /\ NoGenerate
    /\ text \in TextInputs \cup ContextInputs
    /\ returned = NoCall

CallNormalizeText ==
    /\ text.kind = "chars"
    /\ returned' = [op |-> "normalizeText", value |-> normalizeText(text.value)]
    /\ UNCHANGED <<now, ret, rlVars, cacheVars, replyVars, chatVars, text, searchVars, genVars>>

CallValidateResponse ==
    /\ text.kind = "chars"
    /\ returned' = [op |-> "validateResponse", value |-> validateResponse(text.value)]
    /\ UNCHANGED <<now, ret, rlVars, cacheVars, replyVars, chatVars, text, searchVars, genVars>>

CallPrepareContext ==
    /\ text.kind = "context"
    /\ program = "index"
    /\ returned' = [op |-> "prepareContext",
                    value |-> SystemPrompt(text.dbHistory, text.externalInfo)]
    /\ UNCHANGED <<now, ret, rlVars, cacheVars, replyVars, chatVars, text, searchVars, genVars>>

\* The pre-authored texts of generateFallback (src/index.js) and of
\* generateFallbackResponse (src/unnamed/part_000).
FallbacksIndex ==
    <<"problema tecnico", "inconvenientes", "circuitos felinos", "problemas tecnicos">>
FallbacksMancy ==
    <<"dificultades tecnicas", "no puedo acceder", "problema temporal",
      "lamento los inconvenientes", "informacion incompleta">>
Fallbacks == IF program = "index" THEN FallbacksIndex ELSE FallbacksMancy

\* The text of the fallback: built from the external information when there
\* is some, else fallbacks[Math.floor(Math.random() * fallbacks.length)],
\* where `random` is the index drawn.
generateFallback(externalInfo, random) ==
    IF externalInfo # NoExternalInfo
    THEN [kind |-> "registros", title |-> externalInfo.title]
    ELSE [kind |-> "fallbacks", title |-> <<Fallbacks[random]>>]

CallGenerateFallback(random) ==
    /\ text.kind = "context"
    /\ returned' = [op |-> "generateFallback",
                    value |-> generateFallback(text.externalInfo, random)]
    /\ UNCHANGED <<now, ret, rlVars, cacheVars, replyVars, chatVars, text, searchVars, genVars>>

NextText ==
    \/ CallNormalizeText
    \/ CallValidateResponse
    \/ CallPrepareContext
    \/ \E random \in 1..Len(Fallbacks) : CallGenerateFallback(random)

SpecText == InitText /\ [][NextText]_vars

\* C13: the content prepareContext gives the system turn never holds the
\* literal token {CONTEXT_SUMMARY} or {EXTERNAL_INFO}, whatever the summary
\* of the durable history and the external information hold.
C13_NoPlaceholderLeft ==
    returned.op = "prepareContext" =>
        \A i \in 1..Len(returned.value) :
            returned.value[i] \notin {CONTEXT_SUMMARY, EXTERNAL_INFO}

\* C19: normalizeText is idempotent in both programs:
\* normalize(normalize(x)) = normalize(x) for every string x.
C19_NormalizeIdempotent ==
    returned.op = "normalizeText" => normalizeText(returned.value) = returned.value

\* The text is seven or more one-letter tokens separated by single spaces.
SevenSingleLetters(s) ==
    /\ Len(s) >= 13
    /\ Len(s) % 2 = 1
    /\ \A i \in 1..Len(s) : IF i % 2 = 1 THEN s[i] \in WordChars ELSE s[i] = "sp"

\* C20: validateResponse rejects every text that consists of seven or more
\* adjacent single-letter tokens separated by spaces, such as
\* 'a a a a a a a', in both programs.
C20_SingleLettersRejected ==
    (returned.op = "validateResponse" /\ SevenSingleLetters(text.value)) =>
        ~returned.value.valid

\* The text validateResponse examines: trimmed in index.js, normalized in
\* part_000.
Examined(response) ==
    IF program = "index" THEN Trim(response) ELSE normalizeText(response)

\* No rejection check of validateResponse applies to the text.
PassesRejectionChecks(response) ==
    LET normalized == Examined(response)
    IN  IF program = "index"
        THEN /\ Len(normalized) >= 2
             /\ ~LongNonAsciiRun(normalized)
             /\ ~RepeatedChar(normalized, 10, {normalized[i] : i \in 1..Len(normalized)})
        ELSE /\ Len(normalized) >= 5
             /\ \E i \in 1..Len(normalized) : normalized[i] \in MancyAllowed
             /\ ~SingleLetterWords(normalized)
             /\ ~RepeatedChar(normalized, 5, WordChars)
             /\ Len(SelectSeq(Split(normalized),
                    LAMBDA w : Len(w) >= 2 /\ \E i \in 1..Len(w) : w[i] \in WordChars)) >= 2

TerminalPunctuation == {"dot", "iquest"}

C22_FallbackDeterministic ==
    [][(returned.op = "generateFallback" /\ returned'.op = "generateFallback"
            /\ text' = text) =>
          returned'.value = returned.value]_vars

(***************************************************************************)
(* Claims on ExternalAPIs.searchAllSources                                 *)
(***************************************************************************)
\* A source returned a result: its answer carried one, or its cache did.
ReturnedOne(source) ==
    /\ lookups[source].pc = "settled"
    /\ lookups[source].answer \in Values \cup {"cached"}

\* The results a source that returned one stands for, from what it answered.
ResultsOf(source) ==
    LET l == lookups[source]
        found == IF l.answer = "cached" THEN l.value ELSE l.answer
    IN  IF source = "wiki" THEN <<Result(source, found)>>
        ELSE [i \in 1..Min(DocsIn[found], LimitOf[source]) |-> Result(source, DocTitles[i])]

\* e occurs in results as one contiguous run.
Contains(results, e) ==
    \E i \in 1..(Len(results) - Len(e) + 1) : SubSeq(results, i, i + Len(e) - 1) = e

\* searchAllSources is suspended at Promise.allSettled.
Awaiting == searched.op = "searchAllSources" /\ searched.kind = "pending"
SearchReturned == searched.op = "searchAllSources" /\ searched.kind # "pending"

\* C23: while searchAllSources waits, each of the three lookups is under way
\* or settled (none waits for another to finish); every promise is fulfilled,
\* so the call returns and does not throw; and what it returns contains the
\* results of every source that returned one, whatever happened to the other
\* sources (not found, no content, error, timeout).
C23_SourcesIsolated ==
    /\ Awaiting => \A s \in Sources : lookups[s].pc \in {"pending", "settled"}
    /\ \A s \in Sources : lookups[s].pc = "settled" => lookups[s].status = "fulfilled"
    /\ SearchReturned =>
          /\ searched.kind \in {"results", "null"}
          /\ \A s \in Sources :
                ReturnedOne(s) => /\ searched.kind = "results"
                                  /\ Contains(searched.results, ResultsOf(s))

\* searchAllSources has returned the result of one source while another
\* failed and the third was not found or empty.
C23_Witness ==
    /\ SearchReturned
    /\ \E s \in Sources : ReturnedOne(s)
    /\ \E s \in Sources : lookups[s].answer = "error"
    /\ \E s \in Sources : lookups[s].answer \in {"notFound", "noExtract"}

(***************************************************************************)
(* Claims on the catch blocks of the reply handlers                        *)
(***************************************************************************)
\* Handler t leaves through its catch block in this step: handleReply after
\* the reply or the log entry threw, handleMancyResponse after the apology.
Caught(t) ==
    /\ task'[t].pc = "idle"
    /\ ret'.op = "reply" /\ ret'.value = "apology"
    /\ \/ program = "index" /\ task[t].pc = "reply"
       \/ program = "part_000" /\ task[t].pc = "mancyCatch"

\* The principal has no conversation and no rate state: no token bucket in
\* index.js, no cooldown entry in part_000.
ConversationAbsent == conversation = <<>>
RateStateAbsent ==
    IF program = "index" THEN userBuckets[Principal] = NoBucket
                         ELSE userCooldowns = 0

\* C24: when a reply handler of the principal leaves through its catch block,
\* the apology has been sent and the principal is left without a conversation
\* and without rate state (token bucket or cooldown entry).
C24_CatchResetsPrincipal ==
    [][\A t \in Tasks : Caught(t) => ConversationAbsent' /\ RateStateAbsent']_vars

(***************************************************************************)
(* Claims on the program without its durable store                         *)
(***************************************************************************)
\* Every Database operation on the cache table returns null or does nothing.
DatabaseAbsent ==
    \A k \in Keys :
        /\ DatabaseGetCache(apiCache, k) = NoRow
        /\ \A v \in Values, ttl \in {NEGATIVE_TTL, SEARCH_CACHE_TTL} :
              DatabaseSetCache(apiCache, k, v, ttl) = apiCache
        /\ DatabaseCleanupExpiredCache(apiCache) = apiCache

\* get and set with the durable store allowed do what they do without it.
MemoryOnly ==
    \A k \in DOMAIN responseCache :
        /\ EnhancedCacheGet(responseCache, apiCache, k, TRUE)
              = EnhancedCacheGet(responseCache, apiCache, k, FALSE)
        /\ \A v \in {ValidText, FallbackText} :
              EnhancedCacheSet(responseCache, apiCache, k, v, RESPONSE_CACHE_TTL, TRUE)
                 = EnhancedCacheSet(responseCache, apiCache, k, v, RESPONSE_CACHE_TTL, FALSE)

\* handleReply has come to its reply and the platform accepted it.
ReplyAccepted == program = "index" /\ ret.op = "reply" /\ ret.delivery = "ok"

\* C25: with Database.initialized = false the Database operations return
\* null or do nothing, EnhancedCache.get and set behave as a memory-only TTL
\* cache, and an admitted handleReply whose reply the platform accepts has
\* sent a generated text or the fallback text.
C25_WorksWithoutDatabase ==
    ~dbInitialized =>
        /\ DatabaseAbsent
        /\ MemoryOnly
        /\ ReplyAccepted => ret.value \in {ValidText, FallbackText}

(***************************************************************************)
(* Claims on RateLimiter                                                   *)
(***************************************************************************)
\* C26: concurrentRequests is never negative, and it is 0 whenever no
\* admitted handleReply is in flight (every request that passed consumeToken
\* has returned), after any interleaving of requests.
C26_ConcurrentZeroWhenIdle ==
    /\ concurrentRequests >= 0
    /\ InFlight = {} => concurrentRequests = 0

\* Every request has been handled, at least two were admitted and ran
\* together, and one released more than once.
C26_Witness ==
    /\ \A r \in Reqs : pc[r] = "done"
    /\ Cardinality({r \in Reqs : releases[r] > 0}) >= 2
    /\ \E r \in Reqs : releases[r] > 1
    /\ concurrentRequests = 0

\* The tokens principal u has in buckets: those of its bucket, or a full
\* bucket when it has none.
TokensOf(buckets, u) ==
    IF buckets[u] # NoBucket THEN buckets[u].tokens ELSE GLOBAL_RATE_LIMIT

\* Every timestamp of window `after` is one of window `before`, as often.
NothingAdded(before, after) ==
    /\ Len(after) <= Len(before)
    /\ \A i \in 1..Len(after) : after[i] = before[Len(before) - Len(after) + i]

\* C27: when consumeToken(p) returns false, p's tokens are not decremented,
\* no timestamp is added to globalRequests, concurrentRequests is unchanged
\* and no other principal's bucket changes; when it returns true, the token,
\* the timestamp and the concurrency slot are taken in that same call.
C27_DenialTakesNothing ==
    \A u \in Users :
        LET c == ConsumeToken(u)
        IN  /\ \A v \in Users \ {u} : c.buckets[v] = userBuckets[v]
            /\ ~c.ok =>
                  /\ TokensOf(c.buckets, u) >= TokensOf(userBuckets, u)
                  /\ NothingAdded(globalRequests, c.window)
                  /\ c.concurrent = concurrentRequests
            /\ c.ok =>
                  /\ TokensOf(c.buckets, u) = Refill(BucketOrNew(userBuckets, u)).tokens - 1
                  /\ c.window = Append(PruneWindow(globalRequests), now)
                  /\ c.concurrent = concurrentRequests + 1

\* consumeToken has just denied a principal whose bucket is stored and
\* empty, while another principal has a bucket and the window holds
\* timestamps.
C27_Witness ==
    /\ ret = [op |-> "consumeToken", value |-> FALSE]
    /\ globalRequests # <<>>
    /\ \E u, v \in Users :
          /\ u # v
          /\ userBuckets[u] # NoBucket /\ userBuckets[u].tokens = 0
          /\ ~ConsumeToken(u).ok
          /\ userBuckets[v] # NoBucket

\* consumeToken(u) is denied for lack of tokens: the refilled bucket is empty.
DeniedForTokens(u) == ~ConsumeToken(u).ok /\ NoTokens(u)

\* C28: when consumeToken(p) has returned false because p's tokens <= 0,
\* getUserWaitTime(p) at the same instant returns RefillIntervalMs minus the
\* time since lastRefill, which is strictly positive and at most
\* RefillIntervalMs.
C28_WaitTimeExact ==
    \A u \in Users :
        DeniedForTokens(u) =>
            LET after == ConsumeToken(u).buckets
                waitTime == GetUserWaitTime(after, u)
            IN  /\ after[u] # NoBucket
                /\ waitTime = RefillIntervalMs - (now - after[u].lastRefill)
                /\ waitTime > 0
                /\ waitTime <= RefillIntervalMs

\* A principal whose bucket was emptied earlier is denied for lack of tokens
\* half an interval after its last refill.
C28_Witness ==
    /\ ret = [op |-> "consumeToken", value |-> FALSE]
    /\ \E u \in Users :
          /\ DeniedForTokens(u)
          /\ userBuckets[u] # NoBucket
          /\ now - userBuckets[u].lastRefill = RLTickMs
          /\ GetUserWaitTime(userBuckets, u) = RefillIntervalMs - RLTickMs

\* The admissions so far are the timestamps consumeToken pushed; the window
\* keeps those it has not pruned.  Those in the ten seconds up to now:
AdmissionsInWindow == Len(SelectSeq(globalRequests, LAMBDA time : time > now - GlobalWindowMs))

\* C29: over all principals, the admissions whose time lies in the trailing
\* ten-second window number at most GlobalMultiplier * GLOBAL_RATE_LIMIT = 25,
\* after any sequence of admission attempts at non-decreasing times.
C29_GlobalWindowBounded ==
    AdmissionsInWindow <= GlobalMultiplier * GLOBAL_RATE_LIMIT

\* The window holds 25 admissions and consumeToken has just denied a
\* principal that has tokens, with a slot free.
C29_Witness ==
    /\ AdmissionsInWindow = GlobalMultiplier * GLOBAL_RATE_LIMIT
    /\ ret = [op |-> "consumeToken", value |-> FALSE]
    /\ ~ConcurrencyAtMax
    /\ \E u \in Users : ~NoTokens(u)

(***************************************************************************)
(* Claims on the shortening of a history                                   *)
(***************************************************************************)
\* Each turn with the index it has in the array, so that equal turns at
\* different places are told apart.
Tagged(messages) == [i \in 1..Len(messages) |-> [index |-> i, turn |-> messages[i]]]

\* The limit the running program applies after a push.
Limited(messages) == IF program = "index" THEN Trimmed(messages) ELSE Spliced(messages)

\* The stored history with one more turn pushed, before the limit is applied.
Pushed1(turn) == Tagged(Append(conversation, turn))

\* after is before's element at index 0 followed by the last turns of before,
\* in their order.
SystemTurnAndSuffix(before, after) ==
    /\ Len(after) >= 1
    /\ after[1] = before[1]
    /\ \A i \in 2..Len(after) : after[i] = before[Len(before) - Len(after) + i]

\* C30: whenever the push of a turn onto the stored history makes the program
\* shorten it (addMessage in index.js, the splice of handleMancyResponse in
\* part_000), the element at index 0 is kept and the other kept turns are the
\* most recent ones in their order, a contiguous suffix of the history.
C30_KeepsFirstAndSuffix ==
    \A role \in {"user", "assistant"} :
        LET before == Pushed1(Turn(role, ValidText, program = "index"))
            after == Limited(before)
        IN  /\ Len(after) <= Len(before)
            /\ Len(after) < Len(before) => SystemTurnAndSuffix(before, after)
            /\ Len(after) = Len(before) => after = before

\* Turns have been dropped from the stored history (more were pushed than it
\* holds; in part_000 the system turn is there without a push), and the next
\* push shortens it again.
C30_Witness ==
    /\ Len(conversation) > 1
    /\ appended >= Len(conversation) + (IF program = "index" THEN 1 ELSE 0)
    /\ Len(Limited(Pushed1(Turn("user", ValidText, program = "index")))) <= Len(conversation)

(***************************************************************************)
(* ResponseGenerator.generate (src/index.js) and generateMancyResponse     *)
(* (src/unnamed/part_000) observed call by call: the generator calls of    *)
(* one principal, one after the other, each with a message not sent        *)
(* before.  Every completion call is recorded with the messages, the model *)
(* and the temperature it was given and the time it was issued; the only   *)
(* time that passes is the time the generator sleeps.                      *)
(***************************************************************************)
MaxRequests == 2

\* The messages of the principal.  GenMessages[m] is userMessage.substring(0,
\* 100): "m1a" and "m1b" differ after their first 100 characters only.
GenMessages == {"m1a", "m1b", "m2"}
Substring100 == [m1a |-> "h1", m1b |-> "h1", m2 |-> "h2"]

\* generateKey('response', `${userId}:${userMessage.substring(0, 100)}`): the
\* digest of a string, one key for each string.
ResponseCacheKey(userMessage) == Substring100[userMessage]

PrimaryModel == "primary"
SecondaryModel == "secondary"
\* Temperatures in hundredths.
BaseTemperature == 25
TemperatureStep == 10
BackoffBaseMs == 1000

\* index.js: the models array, by attempt (1-based).
ModelsIndex ==
    << [model |-> PrimaryModel, temperature |-> BaseTemperature],
       [model |-> SecondaryModel, temperature |-> BaseTemperature + TemperatureStep],
       [model |-> SecondaryModel, temperature |-> BaseTemperature + 2 * TemperatureStep] >>

\* part_000: models[attempt % models.length] and temperature + attempt * 0.1
\* for the 0-based attempt.
ModelsMancy == <<PrimaryModel, SecondaryModel>>
CurrentModelMancy(attempt0) ==
    [model |-> ModelsMancy[(attempt0 % Len(ModelsMancy)) + 1],
     temperature |-> BaseTemperature + attempt0 * TemperatureStep]

\* The model and temperature of attempt n (1-based) in the running program.
CurrentModel(n) ==
    IF program = "index" THEN ModelsIndex[n] ELSE CurrentModelMancy(n - 1)

\* Faulty variant of WaitTime: the wait does not grow with the attempt.
WaitTime_Flat(n) == BackoffBaseMs

\* `1000 * attempt` (index.js), `1000 * (attempt + 1)` for the 0-based attempt
\* (part_000): the wait after attempt n (1-based).
WaitTime(n) == BackoffBaseMs * n

\* part_000: the system turn written into the local messages array after a
\* rejected attempt.
StrengthenedTurn == Turn("system", "prompt IMPORTANTE", FALSE)

InitGenerate ==
    /\ now = 0
    /\ ret = NoCall
    /\ program \in {"index", "part_000"}
    /\ RateLimiterNew
    /\ cache = <<>>
    /\ memoryCache = [k \in Keys |-> NoItem]
    /\ apiCache = [k \in Keys |-> NoRow]
    /\ dbInitialized = FALSE
    /\ insertionOrder = <<>>
    /\ responseCache = [k \in {Substring100[m] : m \in GenMessages} |-> NoItem]
    /\ NoRequests

\* The reply handler calls the generator.  index.js: generate reads the
\* response cache and returns the cached value on a hit.  part_000: the
\* handler has made the history when absent, pushed the user's message and
\* limited the history.
GenerateCalled(userMessage) ==
    LET cacheKey == ResponseCacheKey(userMessage)
        cachedResponse == EnhancedCacheGet(responseCache, apiCache, cacheKey, FALSE).value
        history == IF conversation = <<>> THEN <<SystemTurn>> ELSE conversation
        called == [NoGen EXCEPT !.message = userMessage,
                                !.used = gen.used \cup {userMessage},
                                !.succeeded = gen.succeeded]
    IN  /\ gen.pc = "idle"
        /\ userMessage \notin gen.used
        /\ Cardinality(gen.used) < MaxRequests
        /\ calls' = <<>>
        /\ IF program = "index"
           THEN /\ gen' = IF cachedResponse # Null
                          THEN [called EXCEPT !.pc = "returned",
                                              !.result = CachedString(cachedResponse)]
                          ELSE [called EXCEPT !.pc = "attempt"]
                /\ UNCHANGED conversation
           ELSE /\ gen' = [called EXCEPT !.pc = "attempt"]
                /\ conversation' = Spliced(Append(history, Turn("user", userMessage, FALSE)))
        /\ UNCHANGED <<now, ret, rlVars, cacheVars, replyVars, task, userCooldowns,
                       appended, arrivals, textVars, searchVars>>

\* An attempt up to its completion call.  index.js: prepareContext returns
\* the stored array with the system turn written, and generate pushes the
\* user's message onto it.  part_000: messages is a new copy of the history.
GenerateAttempt ==
    LET n == gen.attempt + 1
        messages == IF program = "index"
                    THEN Append(WithSystemPrompt(conversation),
                                Turn("user", gen.message, FALSE))
                    ELSE conversation
    IN  /\ gen.pc = "attempt"
        /\ gen' = [gen EXCEPT !.pc = "completion", !.attempt = n, !.messages = messages]
        /\ conversation' = IF program = "index" THEN messages ELSE conversation
        /\ calls' = Append(calls, [messages |-> messages,
                                   model |-> CurrentModel(n).model,
                                   temperature |-> CurrentModel(n).temperature,
                                   at |-> now])
        /\ UNCHANGED <<now, ret, rlVars, cacheVars, replyVars, task, userCooldowns,
                       appended, arrivals, textVars, searchVars>>

\* What the generator returns in the running program.
GenerateResult(value, model) ==
    IF program = "index" THEN Generated(value, model) ELSE MancyString(value)

\* The completion call settles: valid text is returned (and cached by
\* generate in index.js); rejected text or an error ends the attempt, the
\* last one with the fallback.  part_000 writes the strengthened system turn
\* into the local messages array after a rejected attempt that is not the last.
GenerateSettles(completion) ==
    LET last == gen.attempt = MaxAttempts
        ended == [gen EXCEPT !.outcomes = Append(@, completion),
                             !.endedAt = Append(@, now)]
        fallback == [ended EXCEPT !.pc = "returned",
                                  !.result = GenerateResult(FallbackText, "fallback")]
    IN  /\ gen.pc = "completion"
        /\ CASE completion = "valid" ->
                  /\ gen' = [ended EXCEPT !.pc = "returned",
                                !.result = GenerateResult(ValidText, CurrentModel(gen.attempt).model),
                                !.succeeded = @ \cup {gen.message}]
                  /\ responseCache' =
                        IF program = "index"
                        THEN EnhancedCacheSet(responseCache, apiCache,
                                              ResponseCacheKey(gen.message), ValidText,
                                              RESPONSE_CACHE_TTL, FALSE).cache
                        ELSE responseCache
             [] completion = "corrupt" ->
                  /\ gen' = IF last THEN fallback
                            ELSE IF program = "index" THEN [ended EXCEPT !.pc = "attempt"]
                            ELSE [ended EXCEPT !.pc = "attempt",
                                               !.messages[1] = StrengthenedTurn]
                  /\ UNCHANGED responseCache
             [] completion = "error" ->
                  /\ gen' = IF last THEN fallback ELSE [ended EXCEPT !.pc = "sleep"]
                  /\ UNCHANGED responseCache
        /\ UNCHANGED <<now, ret, rlVars, cacheVars, pc, attempt, outcome, releases,
                       chatVars, textVars, searchVars, calls>>

\* `await sleep(waitTime)` is over.
GenerateWakes ==
    /\ gen.pc = "sleep"
    /\ now' = now + WaitTime(gen.attempt)
    /\ gen' = [gen EXCEPT !.pc = "attempt"]
    /\ UNCHANGED <<ret, rlVars, cacheVars, replyVars, chatVars, textVars, searchVars, calls>>

\* The reply handler after the generator: index.js adds the user's message
\* and the assistant's text with addMessage, part_000 pushes the response.
\* The record of the generator call is kept until the next call.
GenerateReplied ==
    /\ gen.pc = "returned"
    /\ gen' = [gen EXCEPT !.pc = "idle"]
    /\ conversation' =
          IF program = "index"
          THEN AddMessage(AddMessage(conversation, "user", gen.message),
                          "assistant", Prop(gen.result, "text"))
          ELSE Append(conversation, Turn("assistant", gen.result.value, FALSE))
    /\ UNCHANGED <<now, ret, rlVars, cacheVars, replyVars, task, userCooldowns,
                   appended, arrivals, textVars, searchVars, calls>>

NextGenerate ==
    \/ \E m \in GenMessages : GenerateCalled(m)
    \/ GenerateAttempt
    \/ \E completion \in {"valid", "corrupt", "error"} : GenerateSettles(completion)
    \/ GenerateWakes
    \/ GenerateReplied

SpecGenerate == InitGenerate /\ [][NextGenerate]_vars

(***************************************************************************)
(* Claims on the attempts of the generators                                *)
(***************************************************************************)
\* Attempt i of the generator call under observation followed an attempt
\* that ended as `how`.
AttemptAfter(i, how) ==
    /\ i \in 2..Len(calls)
    /\ gen.outcomes[i - 1] = how

\* C31: after an attempt whose completion text validation rejected, with
\* attempts left, the messages of the next completion call carry the system
\* turn strengthened with the added directive (both programs).
C31_StrengthenedAfterRejection ==
    \A i \in 1..MaxAttempts :
        AttemptAfter(i, "corrupt") => calls[i].messages[1] = StrengthenedTurn

\* The fallback in the form the running program returns it.
ReturnedFallback ==
    /\ gen.pc \in {"returned", "idle"}
    /\ gen.result = GenerateResult(FallbackText, "fallback")

\* C32: when attempt n ends with a thrown completion error and n is less than
\* MaxAttempts, the generator waits BackoffBaseMs * n and then starts attempt
\* n + 1: it is asleep, or about to start the attempt, or has issued the next
\* completion call exactly that long after the error.  When the last attempt
\* ends with a thrown error it returns the fallback and no time has passed.
C32_BackoffThenRetry ==
    \A n \in 1..Len(gen.outcomes) :
        gen.outcomes[n] = "error" =>
            IF n < MaxAttempts
            THEN /\ Len(calls) = n =>
                       \/ gen.pc = "sleep" /\ now = gen.endedAt[n]
                       \/ gen.pc = "attempt" /\ now = gen.endedAt[n] + BackoffBaseMs * n
                 /\ Len(calls) > n => calls[n + 1].at = gen.endedAt[n] + BackoffBaseMs * n
            ELSE /\ ReturnedFallback
                 /\ now = gen.endedAt[n]

\* All three attempts ended with an error: the second call was issued 1000 ms
\* after the first error, the third 2000 ms after the second, and the
\* fallback was returned at the third error.
C32_Witness ==
    /\ gen.outcomes = <<"error", "error", "error">>
    /\ calls[2].at = gen.endedAt[1] + BackoffBaseMs
    /\ calls[3].at = gen.endedAt[2] + 2 * BackoffBaseMs
    /\ ReturnedFallback

\* C33: in both generators attempt 1 uses the primary model at the base
\* temperature, and every later attempt uses the secondary model at a
\* temperature strictly higher than that of the attempt before.
C33_SecondaryAfterFirst ==
    \A i \in 1..Len(calls) :
        IF i = 1
        THEN calls[i].model = PrimaryModel /\ calls[i].temperature = BaseTemperature
        ELSE calls[i].model = SecondaryModel
                /\ calls[i].temperature > calls[i - 1].temperature

\* The places of the user's current message in an array of messages.
PlacesOf(messages, userMessage) ==
    {j \in 1..Len(messages) :
        messages[j].role = "user" /\ messages[j].content = userMessage}

\* C34: in index.js the messages of every completion call of a generate
\* call, attempts 2 and 3 included, contain the current user message exactly
\* once, as the final turn.
C34_UserMessageOnceAndLast ==
    program = "index" =>
        \A i \in 1..Len(calls) :
            PlacesOf(calls[i].messages, gen.message) = {Len(calls[i].messages)}

(***************************************************************************)
(* Claims on ConversationManager.prepareContext                            *)
(***************************************************************************)
\* The user and assistant turns of an array, in their order.
StoredTurns(messages) == SelectSeq(messages, LAMBDA m : m.role # "system")

\* Handler t goes through prepareContext and generate's push on the stored
\* array in this step.
PreparesContext(t) ==
    /\ program = "index"
    /\ task[t].pc = "prepared" /\ task[t].ref = "stored"
    /\ task'[t].pc = "completion"

\* C35: prepareContext changes only the system turn: the user and assistant
\* turns stored before the call are all stored after it, in the same order
\* (the array after the call and generate's push, less the turn pushed).
C35_PrepareContextKeepsTurns ==
    [][\A t \in Tasks :
          PreparesContext(t) =>
              StoredTurns(SubSeq(conversation', 1, Len(conversation') - 1))
                  = StoredTurns(conversation)]_vars

(***************************************************************************)
(* Claims on the response cache of index.js                                *)
(***************************************************************************)
\* generate returned what it found in the response cache.
ReturnedCached == program = "index" /\ gen.result.kind = "string"

\* C36: generate returns a cached response for a message of the principal
\* only if an earlier generate call of the principal with exactly that
\* message ended with valid text.
C36_CachedForSameMessage ==
    ReturnedCached => gen.message \in gen.succeeded

\* The mention handler takes the fix command in this step.
FixCommand ==
    /\ task[Mention].pc = "idle"
    /\ task'[Mention].pc = "fixGreeting"

\* The keys of the response cache that hold an entry; every entry of the
\* model is cached for a message of the principal.
CachedKeys(entries) == {k \in DOMAIN entries : entries[k] # NoItem}

\* C37: after the fix command of a user the response cache holds no entry
\* cached for that user's messages, so the user's next repeat of a message
\* is generated anew.
C37_FixClearsUserEntries ==
    [][FixCommand => CachedKeys(responseCache') = {}]_vars

(***************************************************************************)
(* Claims on the caches driven directly                                    *)
(***************************************************************************)
\* What get(key) with the default useDatabase = true returns right after
\* delete(key), from the present state of the cache.
GetAfterDelete(key) ==
    EnhancedCacheGet(EnhancedCacheDelete(memoryCache, key), apiCache, key, TRUE).value

\* C38: after EnhancedCache.delete(k), get(k) with the default useDatabase
\* returns absent, also for an entry that was set with persistInDb = true.
C38_DeleteThenGetAbsent ==
    program = "index" => \A k \in Keys : GetAfterDelete(k) = Null

\* The keys of a SmartCache Map.
KeysOf(c) == {c[i].key : i \in DOMAIN c}

\* C39: SmartCache.set(k, v) for a key that is already present removes no
\* other key, whatever the size of the Map, maxSize included.
C39_SetPresentKeyKeepsOthers ==
    program = "part_000" =>
        \A k \in KeysOf(cache), v \in Values :
            KeysOf(cache) \subseteq KeysOf(SmartCacheSet(cache, k, v, NEGATIVE_TTL))

(***************************************************************************)
(* Claims on validateResponse of index.js                                  *)
(***************************************************************************)
\* C40: for every text that TextUtils.validateResponse of index.js accepts,
\* the corrected text is itself accepted, and validating it returns it
\* unchanged as its own corrected text.
C40_CorrectedIsFixedPoint ==
    (program = "index" /\ returned.op = "validateResponse" /\ returned.value.valid) =>
        LET again == ValidateResponseIndex(returned.value.corrected)
        IN  /\ again.valid
            /\ again.corrected = returned.value.corrected

====
